---- MODULE Spec2Model ----
(***************************************************************************)
(* create-fred: the provider registry (utils.ts), the model fetcher        *)
(* (model-fetcher.ts), the template engine and the project generator       *)
(* (generator part of model-fetcher.ts).                                   *)
(*                                                                         *)
(* Strings are TLA+ strings; TLC evaluates Len, \o, SubSeq, Head and Tail  *)
(* on them, so the string functions of the code (toLowerCase, startsWith,  *)
(* includes, replace, sort) are computed character by character.           *)
(***************************************************************************)
EXTENDS Integers, Sequences, FiniteSets, TLC

VARIABLES regPc, regInput, regPackage, regEnvVar, regModel

VARIABLES tplPc, tplContent, tplVars, tplOut

VARIABLES fetchPc, fetchProvider, fetchApiKey, fetchResponse, fetchResult,
          netCalls

regVars == <<regPc, regInput, regPackage, regEnvVar, regModel>>

tplVars4 == <<tplPc, tplContent, tplVars, tplOut>>

fetchVars == <<fetchPc, fetchProvider, fetchApiKey, fetchResponse,
               fetchResult, netCalls>>

\* generateProject: position, the options, the template roots on disk and
\* the root chosen at load time, the variables and manifest of the call,
\* the index of the next manifest entry, the destination tree (directories,
\* files with their content) and the order in which files were written
VARIABLES genPc, genOptions, genRoots, TEMPLATE_DIR, genVarSet, genManifest,
          genNext, genDirs, genDisk, genLog, genError

genVars == <<genPc, genOptions, genRoots, TEMPLATE_DIR, genVarSet, genManifest,
             genNext, genDirs, genDisk, genLog, genError>>

\* validateProjectName: position, the name given, the object returned
VARIABLES valPc, valName, valResult

valVars == <<valPc, valName, valResult>>

\* a run of the command: position in main, the command line, whether bun
\* is installed and whether the destination directory exists, the parsed
\* flags, the options under resolution, the model choices, the prompts
\* issued so far, the calls of fetchModelsFromProvider and of
\* installDependencies, the outcome of the installation, the install
\* warning and the success message as printed, the exit code
VARIABLES cliPc, argv, bunAvailable, destExists, cliArgs, cliOptions,
          cliModels, promptsIssued, fetchCalls, installCalls,
          installOutcome, messages, exitCode

cliVars == <<cliPc, argv, bunAvailable, destExists, cliArgs, cliOptions,
             cliModels, promptsIssued, fetchCalls, installCalls,
             installOutcome, messages, exitCode>>

(***************************************************************************)
(* JavaScript string primitives                                            *)
(***************************************************************************)

UpperLetters == "ABCDEFGHIJKLMNOPQRSTUVWXYZ"

LowerLetters == "abcdefghijklmnopqrstuvwxyz"

CharAt(s, i) == SubSeq(s, i, i)

\* characters i..j of s, the range cut to the string
Slice(s, i, j) ==
  LET lo == IF i < 1 THEN 1 ELSE i
      hi == IF j > Len(s) THEN Len(s) ELSE j
  IN IF lo > hi THEN "" ELSE SubSeq(s, lo, hi)

\* position of character c in alphabet, 0 when absent
IndexOfChar(alphabet, c) ==
  IF \E i \in 1..Len(alphabet) : CharAt(alphabet, i) = c
  THEN CHOOSE i \in 1..Len(alphabet) : CharAt(alphabet, i) = c
  ELSE 0

ToLowerChar(c) ==
  IF IndexOfChar(UpperLetters, c) > 0
  THEN CharAt(LowerLetters, IndexOfChar(UpperLetters, c))
  ELSE c

ToUpperChar(c) ==
  IF IndexOfChar(LowerLetters, c) > 0
  THEN CharAt(UpperLetters, IndexOfChar(LowerLetters, c))
  ELSE c

RECURSIVE toLowerCase(_)
toLowerCase(s) ==
  IF s = "" THEN "" ELSE ToLowerChar(Head(s)) \o toLowerCase(Tail(s))

RECURSIVE toUpperCase(_)
toUpperCase(s) ==
  IF s = "" THEN "" ELSE ToUpperChar(Head(s)) \o toUpperCase(Tail(s))

startsWith(s, prefix) ==
  Len(prefix) <= Len(s) /\ SubSeq(s, 1, Len(prefix)) = prefix

\* String.prototype.includes
includes(s, part) ==
  \E i \in 1..(Len(s) - Len(part) + 1) : SubSeq(s, i, i + Len(part) - 1) = part

(***************************************************************************)
(* Property lookup on an object literal: an own key gives its value, a     *)
(* key of Object.prototype gives the inherited member, any other key gives *)
(* undefined.  The inherited members are not strings; they are modelled by *)
(* two marker values no string of the program equals.                      *)
(***************************************************************************)

Undefined == "<undefined>"

ObjectConstructor == "<function Object>"

ObjectPrototype == "<object Object.prototype>"

NonStrings == {Undefined, ObjectConstructor, ObjectPrototype}

InheritedMember(key) ==
  CASE key = "constructor" -> ObjectConstructor
    [] key = "__proto__" -> ObjectPrototype
    [] OTHER -> Undefined

GetProperty(map, key) ==
  IF key \in DOMAIN map THEN map[key] ELSE InheritedMember(key)

\* a || b with a a string, an object or undefined
OrElse(a, b) == IF a = Undefined \/ a = "" THEN b ELSE a

(***************************************************************************)
(* Provider registry (utils.ts)                                            *)
(***************************************************************************)

providerMap ==
  [k \in {"openai", "groq", "anthropic", "google", "mistral", "cohere",
          "vercel", "azure-openai", "azure-anthropic", "azure",
          "fireworks", "xai", "ollama", "ai21", "nvidia",
          "bedrock", "amazon-bedrock", "cloudflare", "elevenlabs",
          "lepton", "perplexity", "replicate", "together",
          "upstash"} |->
     CASE k = "openai" -> "@ai-sdk/openai"
       [] k = "groq" -> "@ai-sdk/groq"
       [] k = "anthropic" -> "@ai-sdk/anthropic"
       [] k = "google" -> "@ai-sdk/google"
       [] k = "mistral" -> "@ai-sdk/mistral"
       [] k = "cohere" -> "@ai-sdk/cohere"
       [] k = "vercel" -> "@ai-sdk/vercel"
       [] k = "azure-openai" -> "@ai-sdk/azure-openai"
       [] k = "azure-anthropic" -> "@ai-sdk/azure-anthropic"
       [] k = "azure" -> "@ai-sdk/azure-openai"
       [] k = "fireworks" -> "@ai-sdk/fireworks"
       [] k = "xai" -> "@ai-sdk/xai"
       [] k = "ollama" -> "@ai-sdk/ollama"
       [] k = "ai21" -> "@ai-sdk/ai21"
       [] k = "nvidia" -> "@ai-sdk/nvidia"
       [] k = "bedrock" -> "@ai-sdk/amazon-bedrock"
       [] k = "amazon-bedrock" -> "@ai-sdk/amazon-bedrock"
       [] k = "cloudflare" -> "@ai-sdk/cloudflare"
       [] k = "elevenlabs" -> "@ai-sdk/elevenlabs"
       [] k = "lepton" -> "@ai-sdk/lepton"
       [] k = "perplexity" -> "@ai-sdk/perplexity"
       [] k = "replicate" -> "@ai-sdk/replicate"
       [] k = "together" -> "@ai-sdk/together"
       [] k = "upstash" -> "@ai-sdk/upstash"]

envMap ==
  [k \in DOMAIN providerMap |->
     CASE k = "openai" -> "OPENAI_API_KEY"
       [] k = "groq" -> "GROQ_API_KEY"
       [] k = "anthropic" -> "ANTHROPIC_API_KEY"
       [] k = "google" -> "GOOGLE_API_KEY"
       [] k = "mistral" -> "MISTRAL_API_KEY"
       [] k = "cohere" -> "COHERE_API_KEY"
       [] k = "vercel" -> "VERCEL_API_KEY"
       [] k = "azure-openai" -> "AZURE_OPENAI_API_KEY"
       [] k = "azure-anthropic" -> "AZURE_ANTHROPIC_API_KEY"
       [] k = "azure" -> "AZURE_OPENAI_API_KEY"
       [] k = "fireworks" -> "FIREWORKS_API_KEY"
       [] k = "xai" -> "XAI_API_KEY"
       [] k = "ollama" -> "OLLAMA_API_KEY"
       [] k = "ai21" -> "AI21_API_KEY"
       [] k = "nvidia" -> "NVIDIA_API_KEY"
       [] k = "bedrock" -> "AWS_ACCESS_KEY_ID"
       [] k = "amazon-bedrock" -> "AWS_ACCESS_KEY_ID"
       [] k = "cloudflare" -> "CLOUDFLARE_API_KEY"
       [] k = "elevenlabs" -> "ELEVENLABS_API_KEY"
       [] k = "lepton" -> "LEPTON_API_KEY"
       [] k = "perplexity" -> "PERPLEXITY_API_KEY"
       [] k = "replicate" -> "REPLICATE_API_KEY"
       [] k = "together" -> "TOGETHER_API_KEY"
       [] k = "upstash" -> "UPSTASH_API_KEY"]

modelMap ==
  [k \in DOMAIN providerMap |->
     CASE k = "openai" -> "gpt-4o-mini"
       [] k = "groq" -> "llama-3.1-70b-versatile"
       [] k = "anthropic" -> "claude-3-5-sonnet-20241022"
       [] k = "google" -> "gemini-1.5-flash"
       [] k = "mistral" -> "mistral-small-latest"
       [] k = "cohere" -> "command-r"
       [] k = "vercel" -> "claude-3-5-sonnet-20241022"
       [] k = "azure-openai" -> "gpt-4o-mini"
       [] k = "azure-anthropic" -> "claude-3-5-sonnet-20241022"
       [] k = "azure" -> "gpt-4o-mini"
       [] k = "fireworks" -> "llama-v3-70b-instruct"
       [] k = "xai" -> "grok-beta"
       [] k = "ollama" -> "llama3.2"
       [] k = "ai21" -> "j2-ultra"
       [] k = "nvidia" -> "meta/llama-3-70b-instruct"
       [] k = "bedrock" -> "anthropic.claude-3-5-sonnet-20241022-v2:0"
       [] k = "amazon-bedrock" -> "anthropic.claude-3-5-sonnet-20241022-v2:0"
       [] k = "cloudflare" -> "llama-3-70b-instruct"
       [] k = "elevenlabs" -> "eleven_turbo_v2_5"
       [] k = "lepton" -> "llama-3-70b-instruct"
       [] k = "perplexity" -> "llama-3.1-sonar-large-128k-online"
       [] k = "replicate" -> "meta/llama-3-70b-instruct"
       [] k = "together" -> "meta/llama-3-70b-instruct"
       [] k = "upstash" -> "meta/llama-3-70b-instruct"]

\* getProviderPackageName with the lowercasing of the probe left out
PackageNameCaseSensitive(provider) ==
  OrElse(GetProperty(providerMap, provider), "@ai-sdk/" \o toLowerCase(provider))

getProviderPackageName(provider) ==
  OrElse(GetProperty(providerMap, toLowerCase(provider)),
         "@ai-sdk/" \o toLowerCase(provider))

getProviderEnvVar(provider) ==
  OrElse(GetProperty(envMap, toLowerCase(provider)),
         toUpperCase(provider) \o "_API_KEY")

getDefaultModel(provider) ==
  OrElse(GetProperty(modelMap, toLowerCase(provider)), "gpt-4o-mini")

(***************************************************************************)
(* Registry lookups on one provider identifier                             *)
(***************************************************************************)

RegistryKeys == DOMAIN providerMap

capitalize(s) == IF s = "" THEN "" ELSE ToUpperChar(Head(s)) \o Tail(s)

UnknownIds ==
  {"unknown", "Unknown", "UNKNOWN", "my-llm", "Acme2", "", "constructor",
   "Constructor", "__proto__", "toString", "a$&b"}

RegistryInputs ==
  RegistryKeys \cup {toUpperCase(k) : k \in RegistryKeys}
               \cup {capitalize(k) : k \in RegistryKeys}
               \cup UnknownIds

RegInit ==
  /\ regPc = "ready"
  /\ regInput \in RegistryInputs
  /\ regPackage = Undefined
  /\ regEnvVar = Undefined
  /\ regModel = Undefined

RegLookup ==
  /\ regPc = "ready"
  /\ regPackage' = getProviderPackageName(regInput)
  /\ regEnvVar' = getProviderEnvVar(regInput)
  /\ regModel' = getDefaultModel(regInput)
  /\ regPc' = "done"
  /\ UNCHANGED regInput

RegNext == RegLookup

\* the registry is not exercised
RegIdle ==
  /\ regPc = "idle"
  /\ regInput = ""
  /\ regPackage = Undefined
  /\ regEnvVar = Undefined
  /\ regModel = Undefined

(***************************************************************************)
(* Provider registry: properties                                           *)
(***************************************************************************)

\* C4: for every identifier of the supported set, in any letter case, the
\* three lookups give the same result for the identifier, for its upper-case
\* form and for its lower-case form.
C4_CaseInsensitive ==
  (regPc = "done" /\ toLowerCase(regInput) \in RegistryKeys) =>
    /\ regPackage = getProviderPackageName(toUpperCase(regInput))
    /\ regPackage = getProviderPackageName(toLowerCase(regInput))
    /\ regEnvVar = getProviderEnvVar(toUpperCase(regInput))
    /\ regEnvVar = getProviderEnvVar(toLowerCase(regInput))
    /\ regModel = getDefaultModel(toUpperCase(regInput))
    /\ regModel = getDefaultModel(toLowerCase(regInput))

C4_Witness ==
  /\ regPc = "done"
  /\ regInput = "AZURE"
  /\ regPackage = "@ai-sdk/azure-openai"
  /\ regEnvVar = "AZURE_OPENAI_API_KEY"
  /\ regModel = "gpt-4o-mini"

\* C5: for every identifier that is not a key of the registry (in any letter
\* case), the package name is "@ai-sdk/" followed by the lower-cased
\* identifier and the environment variable is the upper-cased identifier
\* followed by "_API_KEY".
C5_UnknownSynthesized ==
  (regPc = "done" /\ toLowerCase(regInput) \notin RegistryKeys) =>
    /\ regPackage = "@ai-sdk/" \o toLowerCase(regInput)
    /\ regEnvVar = toUpperCase(regInput) \o "_API_KEY"

\* C6: the default model is gpt-3.5-turbo for openai, llama-3-70b-8192 for
\* groq, claude-3-5-sonnet-20241022 for anthropic (any letter case), and
\* gpt-3.5-turbo for every unknown provider.
C6_DefaultModels ==
  regPc = "done" =>
    /\ toLowerCase(regInput) = "openai" => regModel = "gpt-3.5-turbo"
    /\ toLowerCase(regInput) = "groq" => regModel = "llama-3-70b-8192"
    /\ toLowerCase(regInput) = "anthropic" =>
         regModel = "claude-3-5-sonnet-20241022"
    /\ toLowerCase(regInput) \notin RegistryKeys => regModel = "gpt-3.5-turbo"

(***************************************************************************)
(* Template engine: processTemplate                                        *)
(***************************************************************************)

\* the source text of the regular expression \{\{KEY\}\}; the keys are
\* identifiers, so the expression matches exactly this literal text
Placeholder(key) == "{{" \o key \o "}}"

\* GetSubstitution of String.prototype.replace for an expression without
\* capture groups: $$ is a dollar sign, $& the matched text, $' the text
\* after the match; anything else is literal.  (A dollar sign followed by a
\* grave accent stands for the text before the match; no string of the
\* model holds a grave accent, so that case does not arise.)
RECURSIVE GetSubstitution(_, _, _)
GetSubstitution(replacement, matched, after) ==
  IF replacement = "" THEN ""
  ELSE IF Len(replacement) >= 2 /\ Head(replacement) = "$"
       THEN LET c == CharAt(replacement, 2)
                rest == Slice(replacement, 3, Len(replacement))
            IN CASE c = "$" -> "$" \o GetSubstitution(rest, matched, after)
                 [] c = "&" -> matched \o GetSubstitution(rest, matched, after)
                 [] c = "'" -> after \o GetSubstitution(rest, matched, after)
                 [] OTHER -> "$" \o GetSubstitution(Tail(replacement), matched, after)
       ELSE Head(replacement) \o GetSubstitution(Tail(replacement), matched, after)

\* what replace() puts in the place of one match: a function value is called
\* as the replacer (Object(match) converts back to the matched text), an
\* object is converted to a string, a string is expanded by GetSubstitution
Replacement(value, matched, after) ==
  CASE value = ObjectConstructor -> matched
    [] value = ObjectPrototype -> "[object Object]"
    [] OTHER -> GetSubstitution(value, matched, after)

\* str.replace(new RegExp(pattern, 'g'), value) from position i on: matches
\* are found left to right in str and do not overlap; inserted text is not
\* scanned again
RECURSIVE ReplaceFrom(_, _, _, _)
ReplaceFrom(str, pattern, value, i) ==
  LET matches == {k \in i..(Len(str) - Len(pattern) + 1) :
                    Slice(str, k, k + Len(pattern) - 1) = pattern}
  IN IF matches = {} THEN Slice(str, i, Len(str))
     ELSE LET k == CHOOSE m \in matches : \A other \in matches : m <= other
          IN Slice(str, i, k - 1)
               \o Replacement(value, pattern, Slice(str, k + Len(pattern), Len(str)))
               \o ReplaceFrom(str, pattern, value, k + Len(pattern))

ReplaceAll(str, pattern, value) == ReplaceFrom(str, pattern, value, 1)

\* the loop over Object.entries(vars); entries is a sequence of <<key, value>>
RECURSIVE ApplyEntries(_, _)
ApplyEntries(processed, entries) ==
  IF entries = <<>> THEN processed
  ELSE ApplyEntries(ReplaceAll(processed, Placeholder(entries[1][1]), entries[1][2]),
                    Tail(entries))

\* processTemplate with an expression that matches a placeholder of any
\* name, \{\{\w+\}\}, instead of the placeholder of the entry's key
WordChars == UpperLetters \o LowerLetters \o "0123456789_"

RECURSIVE NameEnd(_, _)
NameEnd(str, j) ==
  IF j <= Len(str) /\ IndexOfChar(WordChars, CharAt(str, j)) > 0
  THEN NameEnd(str, j + 1)
  ELSE j

AnyPlaceholderLen(str, i) ==
  IF Slice(str, i, i + 1) = "{{"
  THEN LET e == NameEnd(str, i + 2)
       IN IF e > i + 2 /\ Slice(str, e, e + 1) = "}}" THEN e + 2 - i ELSE 0
  ELSE 0

RECURSIVE ReplaceAnyFrom(_, _, _)
ReplaceAnyFrom(str, value, i) ==
  IF i > Len(str) THEN ""
  ELSE IF AnyPlaceholderLen(str, i) > 0
       THEN value \o ReplaceAnyFrom(str, value, i + AnyPlaceholderLen(str, i))
       ELSE CharAt(str, i) \o ReplaceAnyFrom(str, value, i + 1)

RECURSIVE ProcessTemplateAnyName(_, _)
ProcessTemplateAnyName(content, vars) ==
  IF vars = <<>> THEN content
  ELSE ProcessTemplateAnyName(ReplaceAnyFrom(content, vars[1][2], 1), Tail(vars))

processTemplate(content, vars) == ApplyEntries(content, vars)

(***************************************************************************)
(* processTemplate on bounded contents and variable sets                   *)
(***************************************************************************)

MaxPieces == 3

MaxVars == 2

TplPieces ==
  {"{{MODEL}}", "{{PROVIDER}}", "{{UNKNOWN_VAR}}", " and ", "{{", "}}"}

TplKeys == {"MODEL", "PROVIDER"}

TplValues == {"gpt-4", "", "{{PROVIDER}}", "a$&b$$", "PROVIDER"}

RECURSIVE Concat(_)
Concat(pieces) ==
  IF pieces = <<>> THEN "" ELSE pieces[1] \o Concat(Tail(pieces))

TplContents ==
  {Concat(ps) : ps \in UNION {[1..n -> TplPieces] : n \in 0..MaxPieces}}

\* variable sets: entries in insertion order, keys distinct
TplVarSets ==
  {vs \in UNION {[1..n -> TplKeys \X TplValues] : n \in 1..MaxVars} :
     \A i, j \in DOMAIN vs : i # j => vs[i][1] # vs[j][1]}

KeysOf(vars) == {vars[i][1] : i \in DOMAIN vars}

TplInit ==
  /\ tplPc = "ready"
  /\ tplContent \in TplContents
  /\ tplVars \in TplVarSets
  /\ tplOut = ""

TplRender ==
  /\ tplPc = "ready"
  /\ tplOut' = processTemplate(tplContent, tplVars)
  /\ tplPc' = "rendered"
  /\ UNCHANGED <<tplContent, tplVars>>

TplNext == TplRender

\* the template engine is not exercised
TplIdle ==
  /\ tplPc = "idle"
  /\ tplContent = ""
  /\ tplVars = <<>>
  /\ tplOut = ""

(***************************************************************************)
(* Template engine: properties                                             *)
(***************************************************************************)

\* text with every occurrence of pattern replaced by value taken literally
RECURSIVE LiteralReplaceFrom(_, _, _, _)
LiteralReplaceFrom(str, pattern, value, i) ==
  IF i > Len(str) THEN ""
  ELSE IF Slice(str, i, i + Len(pattern) - 1) = pattern
       THEN value \o LiteralReplaceFrom(str, pattern, value, i + Len(pattern))
       ELSE CharAt(str, i) \o LiteralReplaceFrom(str, pattern, value, i + 1)

RECURSIVE RenderLiteral(_, _)
RenderLiteral(content, vars) ==
  IF vars = <<>> THEN content
  ELSE RenderLiteral(
         LiteralReplaceFrom(content, Placeholder(vars[1][1]), vars[1][2], 1),
         Tail(vars))

\* number of places where pattern occurs in str
CountOcc(str, pattern) ==
  Cardinality({i \in 1..Len(str) : Slice(str, i, i + Len(pattern) - 1) = pattern})

\* the variable set in every order of its entries
Reorderings(vars) ==
  {[i \in DOMAIN vars |-> vars[p[i]]] : p \in Permutations(DOMAIN vars)}

TplNames == TplKeys \cup {"UNKNOWN_VAR"}

\* C7: every occurrence of the placeholder of each supplied variable is
\* replaced by the variable's value, however often the placeholder is
\* repeated: the output is the content with, for each variable in turn, all
\* occurrences of {{NAME}} replaced by the value itself.
C7_EveryOccurrenceReplaced ==
  tplPc = "rendered" => tplOut = RenderLiteral(tplContent, tplVars)

\* C8: render changes nothing but recognized placeholders: content without
\* a placeholder of a supplied variable is returned unchanged, and every
\* placeholder whose name is not supplied is still in the output.
C8_UnknownUntouched ==
  tplPc = "rendered" =>
    /\ (\A k \in KeysOf(tplVars) : ~includes(tplContent, Placeholder(k)))
         => tplOut = tplContent
    /\ \A u \in TplNames \ KeysOf(tplVars) :
         CountOcc(tplOut, Placeholder(u)) >= CountOcc(tplContent, Placeholder(u))

C8_Witness ==
  /\ tplPc = "rendered"
  /\ tplContent = "{{MODEL}} and {{UNKNOWN_VAR}}"
  /\ tplVars = << <<"MODEL", "gpt-4">> >>
  /\ tplOut = "gpt-4 and {{UNKNOWN_VAR}}"

\* C9: the output does not depend on the order in which the variables are
\* applied: every reordering of the variable set gives the same output.
C9_OrderIndependent ==
  tplPc = "rendered" =>
    \A reordered \in Reorderings(tplVars) :
      processTemplate(tplContent, reordered) = tplOut

(***************************************************************************)
(* Model fetcher: JavaScript values and Array.prototype.sort               *)
(***************************************************************************)

\* the printable ASCII characters in code order (the grave accent, between
\* _ and a, cannot be written in a string of this module and is left out)
CodeOrder ==
  " !\"#$%&'()*+,-./0123456789:;<=>?@ABCDEFGHIJKLMNOPQRSTUVWXYZ[\\]^_abcdefghijklmnopqrstuvwxyz{|}~"

CharCode(c) == IndexOfChar(CodeOrder, c)

\* a < b for strings compared by code units
RECURSIVE StringLess(_, _)
StringLess(a, b) ==
  IF b = "" THEN FALSE
  ELSE IF a = "" THEN TRUE
  ELSE IF Head(a) = Head(b) THEN StringLess(Tail(a), Tail(b))
  ELSE CharCode(Head(a)) < CharCode(Head(b))

\* the default order of sort(): undefined goes last, strings by code units
SortBefore(x, y) ==
  IF x = Undefined THEN FALSE
  ELSE IF y = Undefined THEN TRUE
  ELSE StringLess(x, y)

RECURSIVE InsertSorted(_, _)
InsertSorted(x, sorted) ==
  IF sorted = <<>> THEN <<x>>
  ELSE IF SortBefore(x, Head(sorted)) THEN <<x>> \o sorted
  ELSE <<Head(sorted)>> \o InsertSorted(x, Tail(sorted))

\* the same ordering step with the elements left where they are
KeepOrder(list) == list

RECURSIVE sort(_)
sort(list) ==
  IF list = <<>> THEN <<>>
  ELSE InsertSorted(list[Len(list)], sort(SubSeq(list, 1, Len(list) - 1)))

\* values an adapter may hand back
JsNull == [type |-> "null", items |-> <<>>]

JsArray(list) == [type |-> "array", items |-> list]

\* outcome of an async call: a value or a thrown Error
Returns(value) == [threw |-> FALSE, value |-> value]

Throws == [threw |-> TRUE, value |-> JsNull]

(***************************************************************************)
(* Model fetcher: response bodies                                          *)
(***************************************************************************)

MaxModels == 2

\* identifiers (id or name) of the entries of a listing
ModelIds ==
  {"gpt-4", "gpt-3.5-turbo-instruct", "GPT-4-Vision", "text-embedding-3",
   "models/gemini-pro", "command-r", "mistral-embed"}

\* an entry of the list: its id (name) field, Undefined when it has none
ModelEntries == ModelIds \cup {Undefined}

\* body of a response with a success status:
\*   unparseable  response.json() rejects
\*   null         the JSON value null
\*   nolist       an object without the list field (data / models)
\*   notarray     the list field holds a value that is not an array
\*   list         the list field holds an array of entries
Bodies ==
  {[kind |-> k, entries |-> <<>>] :
     k \in {"unparseable", "null", "nolist", "notarray"}}
  \cup {[kind |-> "list", entries |-> es] :
          es \in UNION {[1..n -> ModelEntries] : n \in 0..MaxModels}}

AnyMissing(entries) == \E i \in DOMAIN entries : entries[i] = Undefined

\* what every listing adapter does with a body that is not a list: json()
\* rejects, data.data of null throws, a missing field makes the optional
\* chain undefined (then models || null), calling filter/map on a value
\* without them throws
NotAList(body) ==
  CASE body.kind = "nolist" -> Returns(JsNull)
    [] OTHER -> Throws

\* name.replace('models/', ''): the first occurrence only
RECURSIVE ReplaceFirstFrom(_, _, _, _)
ReplaceFirstFrom(str, pattern, value, i) ==
  IF i > Len(str) THEN ""
  ELSE IF Slice(str, i, i + Len(pattern) - 1) = pattern
       THEN value \o Slice(str, i + Len(pattern), Len(str))
       ELSE CharAt(str, i) \o ReplaceFirstFrom(str, pattern, value, i + 1)

(***************************************************************************)
(* Model fetcher: the adapters, from the resolved response on              *)
(***************************************************************************)

KeepOpenAI(id) ==
  /\ startsWith(toLowerCase(id), "gpt-")
  /\ ~includes(toLowerCase(id), "instruct")
  /\ ~includes(toLowerCase(id), "vision")
  /\ ~includes(toLowerCase(id), "embedding")

KeepGroq(id) == ~includes(id, "embedding")

KeepGoogle(name) ==
  includes(toLowerCase(name), "gemini") /\ ~includes(toLowerCase(name), "embedding")

GoogleId(name) == ReplaceFirstFrom(name, "models/", "", 1)

\* .map((model) => model.name.replace(...))
GoogleIds(list) == [i \in DOMAIN list |-> GoogleId(list[i])]

KeepMistral(id) == ~includes(id, "embed")

KeepCohere(name) ==
  includes(toLowerCase(name), "command") \/ includes(toLowerCase(name), "chat")

KeepFireworks(id) == ~includes(id, "embed")

KeepAll(id) == TRUE

\* filter callbacks and string methods read the id of every entry: an entry
\* without id throws a TypeError
fetchOpenAIModels(body) ==
  IF body.kind # "list" THEN NotAList(body)
  ELSE IF AnyMissing(body.entries) THEN Throws
  ELSE Returns(JsArray(sort(SelectSeq(body.entries, KeepOpenAI))))

fetchGroqModels(body) ==
  IF body.kind # "list" THEN NotAList(body)
  ELSE IF AnyMissing(body.entries) THEN Throws
  ELSE Returns(JsArray(sort(SelectSeq(body.entries, KeepGroq))))

fetchGoogleModels(body) ==
  IF body.kind # "list" THEN NotAList(body)
  ELSE IF AnyMissing(body.entries) THEN Throws
  ELSE Returns(JsArray(sort(GoogleIds(SelectSeq(body.entries, KeepGoogle)))))

fetchMistralModels(body) ==
  IF body.kind # "list" THEN NotAList(body)
  ELSE IF AnyMissing(body.entries) THEN Throws
  ELSE Returns(JsArray(sort(SelectSeq(body.entries, KeepMistral))))

fetchCohereModels(body) ==
  IF body.kind # "list" THEN NotAList(body)
  ELSE IF AnyMissing(body.entries) THEN Throws
  ELSE Returns(JsArray(sort(SelectSeq(body.entries, KeepCohere))))

fetchFireworksModels(body) ==
  IF body.kind # "list" THEN NotAList(body)
  ELSE IF AnyMissing(body.entries) THEN Throws
  ELSE Returns(JsArray(sort(SelectSeq(body.entries, KeepFireworks))))

\* data.data?.map((model) => model.id).sort(): nothing reads into the ids
fetchXaiModels(body) ==
  IF body.kind # "list" THEN NotAList(body)
  ELSE Returns(JsArray(sort(body.entries)))

fetchPerplexityModels(body) ==
  IF body.kind # "list" THEN NotAList(body)
  ELSE Returns(JsArray(sort(body.entries)))

AnthropicModels ==
  <<"claude-3-5-sonnet-20241022", "claude-3-opus-20240229",
    "claude-3-sonnet-20240229", "claude-3-haiku-20240307">>

\* the anthropic adapter without the test of the key
fetchAnthropicModelsNoCheck(apiKey) == Returns(JsArray(AnthropicModels))

fetchAnthropicModels(apiKey) ==
  IF ~startsWith(apiKey, "sk-ant-") THEN Throws
  ELSE Returns(JsArray(AnthropicModels))

\* the cases of the switch that issue an HTTP request
ListingAdapters ==
  {"openai", "groq", "google", "mistral", "cohere", "fireworks", "xai",
   "perplexity"}

\* the switch with its default case left out: an identifier without adapter
\* is sent to the OpenAI-compatible listing
AdapterOfNoDefault(provider) ==
  IF toLowerCase(provider) \in ListingAdapters \cup {"anthropic"}
  THEN toLowerCase(provider)
  ELSE "openai"

\* switch (provider.toLowerCase()): the adapter, "none" for the default case
AdapterOf(provider) ==
  IF toLowerCase(provider) \in ListingAdapters \cup {"anthropic"}
  THEN toLowerCase(provider)
  ELSE "none"

AdapterOnBody(adapter, body) ==
  CASE adapter = "openai" -> fetchOpenAIModels(body)
    [] adapter = "groq" -> fetchGroqModels(body)
    [] adapter = "google" -> fetchGoogleModels(body)
    [] adapter = "mistral" -> fetchMistralModels(body)
    [] adapter = "cohere" -> fetchCohereModels(body)
    [] adapter = "fireworks" -> fetchFireworksModels(body)
    [] adapter = "xai" -> fetchXaiModels(body)
    [] adapter = "perplexity" -> fetchPerplexityModels(body)

\* the end of fetchModelsFromProvider: the catch turns a thrown error into
\* null, and so does the test models && models.length > 0 for null and for
\* an empty list
\* the end of fetchModelsFromProvider without the test of the length
SettleKeepEmpty(outcome) ==
  IF outcome.threw THEN Returns(JsNull) ELSE Returns(outcome.value)

Settle(outcome) ==
  IF outcome.threw THEN Returns(JsNull)
  ELSE IF outcome.value.type = "array" /\ Len(outcome.value.items) > 0
       THEN Returns(outcome.value)
       ELSE Returns(JsNull)

(***************************************************************************)
(* fetchModelsFromProvider, one step per await                             *)
(***************************************************************************)

FetchProviders ==
  {"openai", "groq", "anthropic", "google", "mistral", "cohere", "fireworks",
   "xai", "perplexity", "ollama", "replicate", "together", "unknown",
   "OpenAI", "XAI", "Anthropic", "OLLAMA"}

ApiKeys == {"sk-ant-api03-k", "sk-proj-k", ""}

\* what came back for the request: nothing yet, a transport failure, a
\* response with an error status, or the body of a response with a success
\* status
NoResponse == [kind |-> "none", entries |-> <<>>]

FailedResponses ==
  {[kind |-> k, entries |-> <<>>] : k \in {"http401", "http500"}}

FetchInit ==
  /\ fetchPc = "ready"
  /\ fetchProvider \in FetchProviders
  /\ fetchApiKey \in ApiKeys
  /\ fetchResponse = NoResponse
  /\ fetchResult = Returns(JsNull)
  /\ netCalls = 0

\* default case of the switch: return null at once
FetchUnsupported ==
  /\ fetchPc = "ready"
  /\ AdapterOf(fetchProvider) = "none"
  /\ fetchResult' = Returns(JsNull)
  /\ fetchPc' = "returned"
  /\ UNCHANGED <<fetchProvider, fetchApiKey, fetchResponse, netCalls>>

\* case 'anthropic': a check of the key, no request
FetchAnthropic ==
  /\ fetchPc = "ready"
  /\ AdapterOf(fetchProvider) = "anthropic"
  /\ fetchResult' = Settle(fetchAnthropicModels(fetchApiKey))
  /\ fetchPc' = "returned"
  /\ UNCHANGED <<fetchProvider, fetchApiKey, fetchResponse, netCalls>>

\* a listing adapter issues its request: await fetch(url, headers)
FetchRequest ==
  /\ fetchPc = "ready"
  /\ AdapterOf(fetchProvider) \in ListingAdapters
  /\ netCalls' = netCalls + 1
  /\ fetchPc' = "awaitResponse"
  /\ UNCHANGED <<fetchProvider, fetchApiKey, fetchResponse, fetchResult>>

\* a fetcher that answers a transport failure with a second request
FetchTransportFailsRetry ==
  /\ fetchPc = "awaitResponse"
  /\ fetchResponse' = [kind |-> "transportError", entries |-> <<>>]
  /\ IF netCalls < 2
     THEN fetchPc' = "ready" /\ UNCHANGED fetchResult
     ELSE fetchPc' = "returned" /\ fetchResult' = Settle(Throws)
  /\ UNCHANGED <<fetchProvider, fetchApiKey, netCalls>>

\* the transport fails: fetch rejects, the adapter rethrows, the catch of
\* fetchModelsFromProvider returns null
FetchTransportFails ==
  /\ fetchPc = "awaitResponse"
  /\ fetchResponse' = [kind |-> "transportError", entries |-> <<>>]
  /\ fetchResult' = Settle(Throws)
  /\ fetchPc' = "returned"
  /\ UNCHANGED <<fetchProvider, fetchApiKey, netCalls>>

\* a response with !response.ok: the adapter throws its API error
FetchHttpError ==
  /\ fetchPc = "awaitResponse"
  /\ fetchResponse' \in FailedResponses
  /\ fetchResult' = Settle(Throws)
  /\ fetchPc' = "returned"
  /\ UNCHANGED <<fetchProvider, fetchApiKey, netCalls>>

\* a response with a success status: await response.json()
FetchHttpOk ==
  /\ fetchPc = "awaitResponse"
  /\ fetchResponse' \in Bodies
  /\ fetchPc' = "awaitJson"
  /\ UNCHANGED <<fetchProvider, fetchApiKey, fetchResult, netCalls>>

\* the body is read and the adapter and fetchModelsFromProvider finish
FetchBodyRead ==
  /\ fetchPc = "awaitJson"
  /\ fetchResult' = Settle(AdapterOnBody(AdapterOf(fetchProvider), fetchResponse))
  /\ fetchPc' = "returned"
  /\ UNCHANGED <<fetchProvider, fetchApiKey, fetchResponse, netCalls>>

FetchNext ==
  \/ FetchUnsupported
  \/ FetchAnthropic
  \/ FetchRequest
  \/ FetchTransportFails
  \/ FetchHttpError
  \/ FetchHttpOk
  \/ FetchBodyRead

\* the model fetcher is not exercised
FetchIdle ==
  /\ fetchPc = "idle"
  /\ fetchProvider = ""
  /\ fetchApiKey = ""
  /\ fetchResponse = NoResponse
  /\ fetchResult = Returns(JsNull)
  /\ netCalls = 0

(***************************************************************************)
(* Model fetcher: properties                                               *)
(***************************************************************************)

ProvidersWithAdapter ==
  {"openai", "groq", "anthropic", "google", "mistral", "cohere", "fireworks",
   "xai", "perplexity"}

\* the fetch did not get a well-formed listing: transport failure, error
\* status, unparseable body, no list in the body, or an entry without id
FetchFailed ==
  \/ fetchResponse.kind \in {"transportError", "http401", "http500",
                             "unparseable", "null", "nolist", "notarray"}
  \/ fetchResponse.kind = "list" /\ AnyMissing(fetchResponse.entries)

\* C1: fetchModels never raises to its caller, and for every supported
\* provider a non-success status, a transport failure and a body that is
\* malformed or lacks the expected fields all give absent (null).
C1_FailuresGiveAbsent ==
  fetchPc = "returned" =>
    /\ ~fetchResult.threw
    /\ FetchFailed => fetchResult.value = JsNull

\* C2: for a provider identifier without listing adapter the call returns
\* absent and no network call is made.
C2_UnsupportedNoNetwork ==
  (fetchPc = "returned" /\ toLowerCase(fetchProvider) \notin ProvidersWithAdapter) =>
    /\ fetchResult = Returns(JsNull)
    /\ netCalls = 0

C2_Witness ==
  /\ fetchPc = "returned"
  /\ fetchProvider = "OLLAMA"
  /\ fetchResult = Returns(JsNull)
  /\ netCalls = 0

\* the identifiers of a listing that pass the filter of the adapter
FilteredIds(adapter, entries) ==
  CASE adapter = "openai" -> SelectSeq(entries, KeepOpenAI)
    [] adapter = "groq" -> SelectSeq(entries, KeepGroq)
    [] adapter = "google" -> GoogleIds(SelectSeq(entries, KeepGoogle))
    [] adapter = "mistral" -> SelectSeq(entries, KeepMistral)
    [] adapter = "cohere" -> SelectSeq(entries, KeepCohere)
    [] adapter = "fireworks" -> SelectSeq(entries, KeepFireworks)
    [] OTHER -> entries

Occurrences(list, x) == Cardinality({i \in DOMAIN list : list[i] = x})

SameElements(a, b) ==
  /\ Len(a) = Len(b)
  /\ \A i \in DOMAIN a : Occurrences(a, a[i]) = Occurrences(b, a[i])

\* ascending by code units; elements without id, if any, come last
Ascending(list) ==
  \A i, j \in DOMAIN list :
    i < j =>
      /\ list[i] = Undefined => list[j] = Undefined
      /\ (list[i] # Undefined /\ list[j] # Undefined) => ~StringLess(list[j], list[i])

\* C3 as stated: every list fetchModels returns, for any adapter, is in
\* lexicographically sorted order.
C3_AlwaysSorted ==
  (fetchPc = "returned" /\ fetchResult.value.type = "array") =>
    Ascending(fetchResult.value.items)

\* C3 amended: a list returned by an adapter that calls a listing endpoint
\* holds exactly the identifiers of the response that pass the adapter's
\* filter, in ascending order; the anthropic adapter returns its curated
\* list in the order it is written.
C3_ListingSorted ==
  (fetchPc = "returned" /\ fetchResult.value.type = "array") =>
    IF toLowerCase(fetchProvider) = "anthropic"
    THEN fetchResult.value.items = AnthropicModels
    ELSE /\ fetchResponse.kind = "list"
         /\ SameElements(fetchResult.value.items,
                         FilteredIds(toLowerCase(fetchProvider), fetchResponse.entries))
         /\ Ascending(fetchResult.value.items)

C3_Witness ==
  /\ fetchPc = "returned"
  /\ fetchProvider = "groq"
  /\ fetchResponse = [kind |-> "list", entries |-> <<"gpt-4", "command-r">>]
  /\ fetchResult = Returns(JsArray(<<"command-r", "gpt-4">>))

(***************************************************************************)
(* Project generator: template variables, template root, manifest          *)
(***************************************************************************)

\* the booleans, where a value may also be a string or undefined
JsTrue == "<true>"

JsFalse == "<false>"

\* JavaScript truthiness of a string, a boolean or undefined
Truthy(value) == value # Undefined /\ value # "" /\ value # JsFalse

\* conversion to string inside a template literal
ToJsString(value) ==
  CASE value = ObjectConstructor -> "function Object() { [native code] }"
    [] value = ObjectPrototype -> "[object Object]"
    [] value = Undefined -> "undefined"
    [] OTHER -> value

\* getTemplateVariables without the fallback to the placeholder text
getTemplateVariablesNoPlaceholder(options) ==
  << <<"PROJECT_NAME", options.projectName>>,
     <<"PROVIDER", options.provider>>,
     <<"MODEL", options.model>>,
     <<"PROVIDER_PACKAGE", getProviderPackageName(options.provider)>>,
     <<"ENV_VAR_NAME", getProviderEnvVar(options.provider)>>,
     <<"API_KEY_PLACEHOLDER", options.apiKey>>,
     <<"FRED_VERSION", "latest">> >>

\* the entries of the TemplateVariables object, in insertion order
getTemplateVariables(options) ==
  << <<"PROJECT_NAME", options.projectName>>,
     <<"PROVIDER", options.provider>>,
     <<"MODEL", options.model>>,
     <<"PROVIDER_PACKAGE", getProviderPackageName(options.provider)>>,
     <<"ENV_VAR_NAME", getProviderEnvVar(options.provider)>>,
     <<"API_KEY_PLACEHOLDER",
       IF Truthy(options.apiKey) THEN options.apiKey ELSE "your-api-key-here">>,
     <<"FRED_VERSION", "latest">> >>

\* vars.KEY
VarOf(entries, key) ==
  entries[CHOOSE i \in DOMAIN entries : entries[i][1] = key][2]

\* the candidates probed in the other order, the packaged location first
getTemplateDirProdFirst(roots) ==
  IF roots["prod"].exists THEN "prod"
  ELSE IF roots["dev"].exists THEN "dev"
  ELSE "dev"

\* a root is a directory that may exist and the template files in it;
\* "dev" is import.meta.dir/templates, "prod" is import.meta.dir/../templates
getTemplateDir(roots) ==
  IF roots["dev"].exists THEN "dev"
  ELSE IF roots["prod"].exists THEN "prod"
  ELSE "dev"

CoreFiles ==
  << <<"package.json.template", "package.json">>,
     <<"tsconfig.json.template", "tsconfig.json">>,
     <<"flox.nix.template", "flox.nix">>,
     <<".env.example.template", ".env.example">>,
     <<".gitignore.template", ".gitignore">>,
     <<"README.md.template", "README.md">>,
     <<"src/index.ts.template", "src/index.ts">>,
     <<"src/dev-chat.ts.template", "src/dev-chat.ts">>,
     <<"src/server.ts.template", "src/server.ts">>,
     <<"src/config.json.template", "src/config.json">> >>

ExampleFiles ==
  << <<"src/tools/example-tool.ts.template", "src/tools/example-tool.ts">>,
     <<"src/agents/default-agent.ts.template", "src/agents/default-agent.ts">>,
     <<"src/examples/basic.ts.template", "src/examples/basic.ts">> >>

\* const files with the examples pushed whatever the flag says
ManifestAlwaysExamples(options) == CoreFiles \o ExampleFiles

\* const files, after the conditional push of the examples
Manifest(options) ==
  IF options.includeExamples THEN CoreFiles \o ExampleFiles ELSE CoreFiles

\* the directories generateProject creates up front, in order
UpFrontDirs(options) ==
  <<".", "src", "src/tools", "src/agents">>
    \o (IF options.includeExamples THEN <<"src/examples">> ELSE <<>>)

RECURSIVE LastIndexOf(_, _, _)
LastIndexOf(str, c, i) ==
  IF i = 0 THEN 0
  ELSE IF CharAt(str, i) = c THEN i
  ELSE LastIndexOf(str, c, i - 1)

\* path.dirname of a path relative to the destination
dirname(path) ==
  LET k == LastIndexOf(path, "/", Len(path))
  IN IF k = 0 THEN "." ELSE Slice(path, 1, k - 1)

\* the text of the template files.  The files are not part of the sources
\* at hand; each is given the placeholders that the tests read back from
\* the generated file.
TemplateContent(templatePath) ==
  CASE templatePath = "package.json.template" ->
         "{\"name\": \"{{PROJECT_NAME}}\", \"dependencies\": {\"{{PROVIDER_PACKAGE}}\": \"latest\"}}"
    [] templatePath = ".env.example.template" ->
         "{{ENV_VAR_NAME}}={{API_KEY_PLACEHOLDER}}"
    [] templatePath = "README.md.template" ->
         "# {{PROJECT_NAME}} ({{PROVIDER}}, {{MODEL}})"
    [] templatePath = "src/index.ts.template" ->
         "use('{{PROVIDER}}', '{{MODEL}}')"
    [] OTHER -> "// " \o templatePath

\* writeFile(destPath, content): the file is created or overwritten
WriteFile(disk, path, content) ==
  [p \in DOMAIN disk \cup {path} |-> IF p = path THEN content ELSE disk[p]]

Range(list) == {list[i] : i \in DOMAIN list}

(***************************************************************************)
(* generateProject, one step per manifest entry                            *)
(***************************************************************************)

AllTemplates == {entry[1] : entry \in Range(CoreFiles \o ExampleFiles)}

\* a root: missing, complete, or lacking one template
RootStates ==
  {[exists |-> FALSE, files |-> {}], [exists |-> TRUE, files |-> AllTemplates]}
  \cup {[exists |-> TRUE, files |-> AllTemplates \ {t}] :
          t \in {"README.md.template", "src/examples/basic.ts.template"}}

GenProviders == {"openai", "Groq", "my-llm", "a$&b", "constructor"}

GenOptions ==
  [projectName : {"p1"},
   provider : GenProviders,
   model : {"gpt-4", "llama-3-70b-8192"},
   apiKey : {Undefined, "", "test-key-123"},
   includeExamples : BOOLEAN]

GenInit ==
  /\ genPc = "ready"
  /\ genOptions \in GenOptions
  /\ genRoots \in [{"dev", "prod"} -> RootStates]
  /\ TEMPLATE_DIR = getTemplateDir(genRoots)
  /\ genVarSet = <<>>
  /\ genManifest = <<>>
  /\ genNext = 0
  /\ genDirs = {}
  /\ genDisk = <<>>
  /\ genLog = <<>>
  /\ genError = "none"

\* getTemplateVariables, the mkdir calls and the construction of files
GenPrepare ==
  /\ genPc = "ready"
  /\ genVarSet' = getTemplateVariables(genOptions)
  /\ genDirs' = genDirs \cup Range(UpFrontDirs(genOptions))
  /\ genManifest' = Manifest(genOptions)
  /\ genNext' = 1
  /\ genPc' = "copying"
  /\ UNCHANGED <<genOptions, genRoots, TEMPLATE_DIR, genDisk, genLog, genError>>

\* one of the up-front mkdir calls rejects: the directories before it stay
GenMkdirFails ==
  /\ genPc = "ready"
  /\ \E n \in 0..(Len(UpFrontDirs(genOptions)) - 1) :
       genDirs' = genDirs \cup Range(SubSeq(UpFrontDirs(genOptions), 1, n))
  /\ genVarSet' = getTemplateVariables(genOptions)
  /\ genError' = "io"
  /\ genPc' = "failed"
  /\ UNCHANGED <<genOptions, genRoots, TEMPLATE_DIR, genManifest, genNext,
                 genDisk, genLog>>

\* a loop that walks the manifest from its last entry to its first
GenCopyBackwards ==
  /\ genPc = "copying"
  /\ genNext <= Len(genManifest)
  /\ LET entry == genManifest[Len(genManifest) + 1 - genNext]
     IN /\ entry[1] \in genRoots[TEMPLATE_DIR].files
        /\ genDirs' = genDirs \cup {dirname(entry[2])}
        /\ genDisk' = WriteFile(genDisk, entry[2],
                                processTemplate(TemplateContent(entry[1]),
                                                genVarSet))
        /\ genLog' = Append(genLog, entry[2])
  /\ genNext' = genNext + 1
  /\ UNCHANGED <<genPc, genOptions, genRoots, TEMPLATE_DIR, genVarSet,
                 genManifest, genError>>

\* copyTemplateFile for the next entry: read, processTemplate, write
GenCopy ==
  /\ genPc = "copying"
  /\ genNext <= Len(genManifest)
  /\ genManifest[genNext][1] \in genRoots[TEMPLATE_DIR].files
  /\ genDirs' = genDirs \cup {dirname(genManifest[genNext][2])}
  /\ genDisk' = WriteFile(genDisk, genManifest[genNext][2],
                          processTemplate(TemplateContent(genManifest[genNext][1]),
                                          genVarSet))
  /\ genLog' = Append(genLog, genManifest[genNext][2])
  /\ genNext' = genNext + 1
  /\ UNCHANGED <<genPc, genOptions, genRoots, TEMPLATE_DIR, genVarSet,
                 genManifest, genError>>

\* a lookup failure that removes what the run has written so far
GenTemplateNotFoundRollback ==
  /\ genPc = "copying"
  /\ genNext <= Len(genManifest)
  /\ genManifest[genNext][1] \notin genRoots[TEMPLATE_DIR].files
  /\ genDisk' = <<>>
  /\ genLog' = <<>>
  /\ genError' = "Template file not found"
  /\ genPc' = "failed"
  /\ UNCHANGED <<genOptions, genRoots, TEMPLATE_DIR, genVarSet, genManifest,
                 genNext, genDirs>>

\* readTemplateFile: the template is not under TEMPLATE_DIR
GenTemplateNotFound ==
  /\ genPc = "copying"
  /\ genNext <= Len(genManifest)
  /\ genManifest[genNext][1] \notin genRoots[TEMPLATE_DIR].files
  /\ genError' = "Template file not found"
  /\ genPc' = "failed"
  /\ UNCHANGED <<genOptions, genRoots, TEMPLATE_DIR, genVarSet, genManifest,
                 genNext, genDirs, genDisk, genLog>>

\* readFile or writeFile rejects for the next file (a template or .env)
GenIoFails ==
  /\ genPc = "copying"
  /\ \/ /\ genNext <= Len(genManifest)
        /\ genManifest[genNext][1] \in genRoots[TEMPLATE_DIR].files
     \/ /\ genNext > Len(genManifest)
        /\ Truthy(genOptions.apiKey)
  /\ genError' = "io"
  /\ genPc' = "failed"
  /\ UNCHANGED <<genOptions, genRoots, TEMPLATE_DIR, genVarSet, genManifest,
                 genNext, genDirs, genDisk, genLog>>

\* the end of generateProject with the test on options.apiKey left out:
\* .env is written in every run
GenFinishAlwaysEnv ==
  /\ genPc = "copying"
  /\ genNext > Len(genManifest)
  /\ genDisk' = WriteFile(genDisk, ".env",
                          ToJsString(VarOf(genVarSet, "ENV_VAR_NAME")) \o "="
                            \o ToJsString(genOptions.apiKey) \o "\n")
  /\ genLog' = Append(genLog, ".env")
  /\ genDirs' = genDirs \cup {dirname(".env")}
  /\ genPc' = "done"
  /\ UNCHANGED <<genOptions, genRoots, TEMPLATE_DIR, genVarSet, genManifest,
                 genNext, genError>>

\* after the loop: .env if an API key was given, then return
GenFinish ==
  /\ genPc = "copying"
  /\ genNext > Len(genManifest)
  /\ IF Truthy(genOptions.apiKey)
     THEN /\ genDisk' = WriteFile(genDisk, ".env",
                                  ToJsString(VarOf(genVarSet, "ENV_VAR_NAME")) \o "="
                                    \o genOptions.apiKey \o "\n")
          /\ genLog' = Append(genLog, ".env")
          /\ genDirs' = genDirs \cup {dirname(".env")}
     ELSE UNCHANGED <<genDisk, genLog, genDirs>>
  /\ genPc' = "done"
  /\ UNCHANGED <<genOptions, genRoots, TEMPLATE_DIR, genVarSet, genManifest,
                 genNext, genError>>

GenNext ==
  \/ GenPrepare
  \/ GenMkdirFails
  \/ GenCopy
  \/ GenTemplateNotFound
  \/ GenIoFails
  \/ GenFinish

\* the generator is not exercised
GenIdle ==
  /\ genPc = "idle"
  /\ genOptions = [projectName |-> "", provider |-> "", model |-> "",
                   apiKey |-> Undefined, includeExamples |-> FALSE]
  /\ genRoots = [r \in {"dev", "prod"} |-> [exists |-> FALSE, files |-> {}]]
  /\ TEMPLATE_DIR = "dev"
  /\ genVarSet = <<>>
  /\ genManifest = <<>>
  /\ genNext = 0
  /\ genDirs = {}
  /\ genDisk = <<>>
  /\ genLog = <<>>
  /\ genError = "none"

(***************************************************************************)
(* Project generator: properties                                           *)
(***************************************************************************)

ThirteenFiles ==
  {"package.json", "tsconfig.json", "flox.nix", ".env.example", ".gitignore",
   "README.md", "src/index.ts", "src/dev-chat.ts", "src/server.ts",
   "src/config.json", "src/tools/example-tool.ts",
   "src/agents/default-agent.ts", "src/examples/basic.ts"}

\* the manifest text lists the package as a key of an object
DeclaresDependency(content, package) ==
  /\ package \notin NonStrings
  /\ includes(content, "\"" \o package \o "\": \"latest\"")

\* C10: with includeExamples true and no credential, a successful
\* generateProject leaves exactly the 13 core and example files, and the
\* generated package.json declares the resolved provider package as a
\* dependency.
C10_ExamplesAndDependency ==
  (genPc = "done" /\ genOptions.includeExamples /\ ~Truthy(genOptions.apiKey)) =>
    /\ DOMAIN genDisk = ThirteenFiles
    /\ DeclaresDependency(genDisk["package.json"],
                          getProviderPackageName(genOptions.provider))

ExampleDest ==
  {"src/tools/example-tool.ts", "src/agents/default-agent.ts",
   "src/examples/basic.ts"}

\* the destination tree a complete run leaves for the given options, from
\* an empty destination: every manifest entry rendered, then .env
RECURSIVE CopyAll(_, _, _)
CopyAll(disk, manifest, entries) ==
  IF manifest = <<>> THEN disk
  ELSE CopyAll(WriteFile(disk, manifest[1][2],
                         processTemplate(TemplateContent(manifest[1][1]), entries)),
               Tail(manifest), entries)

DiskAfter(options) ==
  LET copied == CopyAll(<<>>, CoreFiles \o (IF options.includeExamples
                                            THEN ExampleFiles ELSE <<>>),
                        getTemplateVariables(options))
  IN IF Truthy(options.apiKey)
     THEN WriteFile(copied, ".env",
                    ToJsString(getProviderEnvVar(options.provider)) \o "="
                      \o options.apiKey \o "\n")
     ELSE copied

\* C11: with includeExamples false the three example files are absent after
\* generateProject, and every other file is present with the content it has
\* when includeExamples is true.
C11_ExamplesExcluded ==
  (genPc = "done" /\ ~genOptions.includeExamples) =>
    LET withExamples == DiskAfter([genOptions EXCEPT !.includeExamples = TRUE])
    IN /\ DOMAIN genDisk \cap ExampleDest = {}
       /\ DOMAIN genDisk = DOMAIN withExamples \ ExampleDest
       /\ \A path \in DOMAIN genDisk : genDisk[path] = withExamples[path]

C11_Witness ==
  /\ genPc = "done"
  /\ ~genOptions.includeExamples
  /\ genOptions.provider = "Groq"
  /\ Cardinality(DOMAIN genDisk) = Len(CoreFiles)
  /\ genDisk["README.md"] = "# p1 (Groq, gpt-4)"
  /\ "src/examples/basic.ts" \notin DOMAIN genDisk

\* C12: generateProject writes .env if and only if a credential was given,
\* and the file then holds exactly ENV_VAR_NAME=credential and a newline,
\* ENV_VAR_NAME being the environment variable the registry gives for the
\* provider.
C12_EnvIffCredential ==
  /\ ".env" \in DOMAIN genDisk =>
       /\ Truthy(genOptions.apiKey)
       /\ genDisk[".env"] =
            ToJsString(getProviderEnvVar(genOptions.provider)) \o "="
              \o genOptions.apiKey \o "\n"
  /\ (genPc = "done" /\ Truthy(genOptions.apiKey)) => ".env" \in DOMAIN genDisk

C12_Witness ==
  /\ genPc = "done"
  /\ genOptions.provider = "Groq"
  /\ genOptions.apiKey = "test-key-123"
  /\ genDisk[".env"] = "GROQ_API_KEY=test-key-123\n"

\* generateProject has thrown while copying manifest entry genNext
FailedAtEntry ==
  genPc = "failed" /\ genNext \in 1..Len(genManifest)

\* C13: when reading the template or writing the file of manifest entry i
\* fails, generateProject throws that error without a retry, and the files
\* written for the entries before i, each written once, stay on disk.
C13_NoRollback ==
  FailedAtEntry =>
    /\ genError \in {"Template file not found", "io"}
    /\ genLog = [j \in 1..(genNext - 1) |-> genManifest[j][2]]
    /\ {genManifest[j][2] : j \in 1..(genNext - 1)} \subseteq DOMAIN genDisk
    /\ \A j \in 1..(genNext - 1) :
         genDisk[genManifest[j][2]] =
           processTemplate(TemplateContent(genManifest[j][1]), genVarSet)

C13_Witness ==
  /\ genPc = "failed"
  /\ genError = "Template file not found"
  /\ genManifest[genNext][2] = "README.md"
  /\ DOMAIN genDisk =
       {"package.json", "tsconfig.json", "flox.nix", ".env.example", ".gitignore"}

LookupFailed ==
  genPc = "failed" /\ genError = "Template file not found"

WhiteSpace == {" ", "\t", "\n", "\r", "\f"}

RECURSIVE trimStart(_)
trimStart(s) ==
  IF s # "" /\ Head(s) \in WhiteSpace THEN trimStart(Tail(s)) ELSE s

RECURSIVE trimEnd(_)
trimEnd(s) ==
  IF s # "" /\ CharAt(s, Len(s)) \in WhiteSpace
  THEN trimEnd(Slice(s, 1, Len(s) - 1))
  ELSE s

trim(s) == trimEnd(trimStart(s))

\* the character class [<>:"/\\|?*\x00-\x1f]; of the range \x00-\x1f the
\* tab, line feed, form feed and carriage return stand for all
invalidChars ==
  {"<", ">", ":", "\"", "/", "\\", "|", "?", "*", "\t", "\n", "\f", "\r"}

reservedNames ==
  <<"con", "prn", "aux", "nul", "com1", "com2", "com3", "com4", "com5",
    "com6", "com7", "com8", "com9", "lpt1", "lpt2", "lpt3", "lpt4", "lpt5",
    "lpt6", "lpt7", "lpt8", "lpt9">>

Invalid(error) == [valid |-> FALSE, error |-> error]

\* validateProjectName with reservedNames.includes(name), no toLowerCase
ValidateCaseSensitive(name) ==
  IF name = "" \/ Len(trim(name)) = 0
  THEN Invalid("Project name cannot be empty")
  ELSE IF \E i \in 1..Len(name) : CharAt(name, i) \in invalidChars
  THEN Invalid("Project name contains invalid characters")
  ELSE IF name \in Range(reservedNames)
  THEN Invalid("Project name is a reserved name")
  ELSE [valid |-> TRUE, error |-> Undefined]

validateProjectName(name) ==
  IF name = "" \/ Len(trim(name)) = 0
  THEN Invalid("Project name cannot be empty")
  ELSE IF \E i \in 1..Len(name) : CharAt(name, i) \in invalidChars
  THEN Invalid("Project name contains invalid characters")
  ELSE IF toLowerCase(name) \in Range(reservedNames)
  THEN Invalid("Project name is a reserved name")
  ELSE [valid |-> TRUE, error |-> Undefined]

(***************************************************************************)
(* validateProjectName on a set of names                                   *)
(***************************************************************************)

OrdinaryNames ==
  {"my-project", "my_project", "project123", "My-Project_2", "my-fred-project",
   "p1", "a b", " con", "con ", "con.txt", "nul.", "con1", "com", "com0",
   "lpt10", "COM10", "aux-project", "constructor", ".", "..", "a$&b", "#name",
   "x"}

BlankNames == {"", " ", "   ", "\t", " \n ", "\r\n"}

BadCharNames ==
  {"a<b", "a>b", "a:b", "a\"b", "a/b", "a\\b", "a|b", "a?b", "a*b", "a\tb",
   "a\nb", "<", "*", "con:", " /", "C:\\dir", "what?"}

NameInputs ==
  OrdinaryNames \cup BlankNames \cup BadCharNames
    \cup Range(reservedNames)
    \cup {toUpperCase(n) : n \in Range(reservedNames)}
    \cup {capitalize(n) : n \in Range(reservedNames)}

ValInit ==
  /\ valPc = "ready"
  /\ valName \in NameInputs
  /\ valResult = [valid |-> FALSE, error |-> Undefined]

ValCall ==
  /\ valPc = "ready"
  /\ valResult' = validateProjectName(valName)
  /\ valPc' = "returned"
  /\ UNCHANGED valName

ValNext == ValCall

\* the validator is not exercised
ValIdle ==
  /\ valPc = "idle"
  /\ valName = ""
  /\ valResult = [valid |-> FALSE, error |-> Undefined]

(***************************************************************************)
(* validateProjectName: properties                                         *)
(***************************************************************************)

Digits1to9 == {"1", "2", "3", "4", "5", "6", "7", "8", "9"}

DeviceNames ==
  {"con", "prn", "aux", "nul"}
    \cup {"com" \o d : d \in Digits1to9} \cup {"lpt" \o d : d \in Digits1to9}

ForbiddenChars == {"<", ">", ":", "\"", "/", "\\", "|", "?", "*"}

ControlChars == {"\t", "\n", "\f", "\r"}

Blank(name) == \A i \in 1..Len(name) : CharAt(name, i) \in {" "} \cup ControlChars

ShouldReject(name) ==
  \/ Blank(name)
  \/ \E i \in 1..Len(name) : CharAt(name, i) \in ForbiddenChars \cup ControlChars
  \/ \E d \in DeviceNames : toLowerCase(name) = d

\* C16: validateProjectName returns valid=false with an error for an empty
\* or whitespace-only name, a name with one of the characters < > : " / \ |
\* ? * or a control character, and a reserved device name in any letter
\* case; for every other name it returns valid=true with no error.
C16_ValidateProjectName ==
  valPc = "returned" =>
    IF ShouldReject(valName)
    THEN ~valResult.valid /\ valResult.error # Undefined
    ELSE valResult.valid /\ valResult.error = Undefined

C16_Witness ==
  /\ valPc = "returned"
  /\ valName = "LPT9"
  /\ valResult = Invalid("Project name is a reserved name")

(***************************************************************************)
(* Command line: parseArgs                                                 *)
(***************************************************************************)

\* the option a token names, "" for a token that is no declared option
StringOption(token) ==
  CASE token \in {"--name", "-n"} -> "name"
    [] token \in {"--provider", "-p"} -> "provider"
    [] token \in {"--model", "-m"} -> "model"
    [] token \in {"--api-key", "-k"} -> "apiKey"
    [] token \in {"--template", "-t"} -> "template"
    [] OTHER -> ""

BooleanOption(token) ==
  CASE token = "--no-install" -> "noInstall"
    [] token \in {"--yes", "-y"} -> "yes"
    [] token \in {"--help", "-h"} -> "help"
    [] OTHER -> ""

NoValues ==
  [name |-> Undefined, provider |-> Undefined, model |-> Undefined,
   apiKey |-> Undefined, template |-> Undefined,
   noInstall |-> Undefined, yes |-> Undefined, help |-> Undefined]

\* parseArgs: a string option takes the next token as its value, whatever
\* it looks like; a boolean option is set; anything else is a positional,
\* which the program does not read from the result
RECURSIVE ParseFrom(_, _, _)
ParseFrom(tokens, i, values) ==
  IF i > Len(tokens) THEN values
  ELSE IF StringOption(tokens[i]) # ""
  THEN IF i + 1 <= Len(tokens)
       THEN ParseFrom(tokens, i + 2,
                      [values EXCEPT ![StringOption(tokens[i])] = tokens[i + 1]])
       ELSE [values EXCEPT ![StringOption(tokens[i])] = JsTrue]
  ELSE IF BooleanOption(tokens[i]) # ""
  THEN ParseFrom(tokens, i + 1,
                 [values EXCEPT ![BooleanOption(tokens[i])] = JsTrue])
  ELSE ParseFrom(tokens, i + 1, values)

\* argv is process.argv.slice(2)
parseCLIArgs(tokens) == ParseFrom(tokens, 1, NoValues)

\* process.argv[2]
FirstArgument(tokens) == IF Len(tokens) >= 1 THEN tokens[1] ELSE Undefined

(***************************************************************************)
(* Option resolution: static data and the model choices                    *)
(***************************************************************************)

\* the value fields of PROVIDERS, in order
PROVIDERS ==
  <<"openai", "groq", "anthropic", "google", "mistral", "cohere", "vercel",
    "azure-openai", "fireworks", "xai", "ollama", "perplexity", "replicate",
    "together">>

MODELS_BY_PROVIDER ==
  [k \in Range(PROVIDERS) |->
     CASE k = "openai" ->
            <<"gpt-4o", "gpt-4o-mini", "gpt-4-turbo", "gpt-4", "gpt-3.5-turbo">>
       [] k = "groq" ->
            <<"llama-3.1-70b-versatile", "llama-3.1-8b-instant",
              "mixtral-8x7b-32768", "gemma-7b-it">>
       [] k = "anthropic" ->
            <<"claude-3-5-sonnet-20241022", "claude-3-opus-20240229",
              "claude-3-sonnet-20240229", "claude-3-haiku-20240307">>
       [] k = "google" ->
            <<"gemini-1.5-pro", "gemini-1.5-flash", "gemini-pro",
              "gemini-pro-vision">>
       [] k = "mistral" ->
            <<"mistral-large-latest", "mistral-medium-latest",
              "mistral-small-latest", "pixtral-12b-2409">>
       [] k = "cohere" ->
            <<"command-r-plus", "command-r", "command", "command-light">>
       [] k = "vercel" -> <<"claude-3-5-sonnet-20241022">>
       [] k = "azure-openai" ->
            <<"gpt-4o", "gpt-4-turbo", "gpt-4", "gpt-3.5-turbo">>
       [] k = "fireworks" ->
            <<"llama-v3-70b-instruct", "llama-v3-8b-instruct",
              "llama-v3.1-70b-instruct", "llama-v3.1-8b-instruct">>
       [] k = "xai" -> <<"grok-beta", "grok-2-vision-1212", "grok-2-1212">>
       [] k = "ollama" ->
            <<"llama3.2", "llama3.1", "llama2", "mistral", "codellama", "phi3">>
       [] k = "perplexity" ->
            <<"llama-3.1-sonar-large-128k-online",
              "llama-3.1-sonar-small-128k-online",
              "llama-3.1-sonar-huge-128k-online">>
       [] k = "replicate" ->
            <<"meta/llama-3-70b-instruct", "meta/llama-3-8b-instruct",
              "meta/llama-3.1-70b-instruct", "meta/llama-3.1-8b-instruct">>
       [] k = "together" ->
            <<"meta/llama-3-70b-instruct", "meta/llama-3-8b-instruct",
              "meta/llama-3.1-70b-instruct", "meta/llama-3.1-8b-instruct">>]

\* a value that is neither an array nor null: a member inherited from
\* Object.prototype
JsObject == [type |-> "object", items |-> <<>>]

\* MODELS_BY_PROVIDER[provider] || [getDefaultModel(provider)]: the probe
\* is the provider as given, not lowercased; an inherited member is truthy
StaticModels(provider) ==
  IF provider \in DOMAIN MODELS_BY_PROVIDER
  THEN JsArray(MODELS_BY_PROVIDER[provider])
  ELSE IF InheritedMember(provider) # Undefined
  THEN JsObject
  ELSE JsArray(<<getDefaultModel(provider)>>)

\* the whole of a call fetchModelsFromProvider(provider, apiKey), given
\* what the network answers to the request, if one is made
FetchOutcome(provider, apiKey, response) ==
  IF AdapterOf(provider) = "none" THEN Returns(JsNull)
  ELSE IF AdapterOf(provider) = "anthropic"
  THEN Settle(fetchAnthropicModels(apiKey))
  ELSE IF response.kind \in {"transportError", "http401", "http500"}
  THEN Settle(Throws)
  ELSE Settle(AdapterOnBody(AdapterOf(provider), response))

RequestsMade(provider) ==
  IF AdapterOf(provider) \in ListingAdapters THEN 1 ELSE 0

(***************************************************************************)
(* main and collectProjectOptions, one step per await                      *)
(***************************************************************************)

NoOptions ==
  [projectName |-> Undefined, provider |-> Undefined, model |-> Undefined,
   apiKey |-> Undefined, includeExamples |-> Undefined,
   skipInstall |-> Undefined]

\* args.name || process.argv[2]
ProjectNameOf(values, tokens) == OrElse(values.name, FirstArgument(tokens))

\* process.exit(code), or the end of main with code 0
Exit(code) ==
  /\ cliPc' = "exited"
  /\ exitCode' = code

\* parseCLIArgs, and showHelp with exit 0 when --help is given
CliStart ==
  /\ cliPc = "start"
  /\ cliArgs' = parseCLIArgs(argv)
  /\ IF Truthy(parseCLIArgs(argv).help)
     THEN Exit(0)
     ELSE cliPc' = "checkBun" /\ UNCHANGED exitCode
  /\ UNCHANGED <<argv, bunAvailable, destExists, cliOptions, cliModels,
                 promptsIssued, fetchCalls, installCalls, installOutcome, messages>>

\* checkBunAvailable() says no
CliBunMissing ==
  /\ cliPc = "checkBun"
  /\ ~bunAvailable
  /\ Exit(1)
  /\ UNCHANGED <<argv, bunAvailable, destExists, cliArgs, cliOptions,
                 cliModels, promptsIssued, fetchCalls, installCalls,
                 installOutcome, messages>>

\* if (args.yes): the options are built from the flags and the defaults
CliYesDefaults ==
  /\ cliPc = "checkBun"
  /\ bunAvailable
  /\ Truthy(cliArgs.yes)
  /\ cliOptions' =
       [projectName |-> OrElse(ProjectNameOf(cliArgs, argv), "my-fred-project"),
        provider |-> OrElse(cliArgs.provider, "openai"),
        model |-> OrElse(cliArgs.model, "gpt-4o-mini"),
        apiKey |-> cliArgs.apiKey,
        includeExamples |-> JsTrue,
        skipInstall |-> IF Truthy(cliArgs.noInstall) THEN JsTrue ELSE JsFalse]
  /\ cliPc' = "validate"
  /\ UNCHANGED <<argv, bunAvailable, destExists, cliArgs, cliModels,
                 promptsIssued, fetchCalls, installCalls, installOutcome, messages,
                 exitCode>>

\* else: collectProjectOptions(flagOptions) is entered with { ...flags }
CliCollectStart ==
  /\ cliPc = "checkBun"
  /\ bunAvailable
  /\ ~Truthy(cliArgs.yes)
  /\ cliOptions' =
       [projectName |-> ProjectNameOf(cliArgs, argv),
        provider |-> cliArgs.provider,
        model |-> cliArgs.model,
        apiKey |-> cliArgs.apiKey,
        includeExamples |-> JsTrue,
        skipInstall |-> IF Truthy(cliArgs.noInstall) THEN JsTrue ELSE JsFalse]
  /\ cliPc' = "askName"
  /\ UNCHANGED <<argv, bunAvailable, destExists, cliArgs, cliModels,
                 promptsIssued, fetchCalls, installCalls, installOutcome, messages,
                 exitCode>>

\* what the user may answer; Undefined is a cancelled prompt
NameAnswers == {"my-app", Undefined}

ProviderAnswers == {"openai", "anthropic", "ollama", Undefined}

ApiKeyAnswers == {"", "  ", "sk-ant-api03-k", Undefined}

\* the choices the user may pick from a list: the first or the last
ModelPicks(list) ==
  IF list = <<>> THEN {Undefined} ELSE {list[1], list[Len(list)], Undefined}

ExamplesAnswers == {JsTrue, JsFalse, Undefined}

\* if (!options.projectName): the text prompt; no answer exits with 1
CliAskName ==
  /\ cliPc = "askName"
  /\ IF Truthy(cliOptions.projectName)
     THEN /\ cliPc' = "askProvider"
          /\ UNCHANGED <<cliOptions, promptsIssued, exitCode>>
     ELSE \E answer \in NameAnswers :
            /\ promptsIssued' = Append(promptsIssued, "projectName")
            /\ IF Truthy(answer)
               THEN /\ cliOptions' = [cliOptions EXCEPT !.projectName = answer]
                    /\ cliPc' = "askProvider"
                    /\ UNCHANGED exitCode
               ELSE Exit(1) /\ UNCHANGED cliOptions
  /\ UNCHANGED <<argv, bunAvailable, destExists, cliArgs, cliModels,
                 fetchCalls, installCalls, installOutcome, messages>>

\* if (!options.provider): the select prompt over PROVIDERS
CliAskProvider ==
  /\ cliPc = "askProvider"
  /\ IF Truthy(cliOptions.provider)
     THEN /\ cliPc' = "askApiKey"
          /\ UNCHANGED <<cliOptions, promptsIssued, exitCode>>
     ELSE \E answer \in ProviderAnswers :
            /\ promptsIssued' = Append(promptsIssued, "provider")
            /\ IF Truthy(answer)
               THEN /\ cliOptions' = [cliOptions EXCEPT !.provider = answer]
                    /\ cliPc' = "askApiKey"
                    /\ UNCHANGED exitCode
               ELSE Exit(1) /\ UNCHANGED cliOptions
  /\ UNCHANGED <<argv, bunAvailable, destExists, cliArgs, cliModels,
                 fetchCalls, installCalls, installOutcome, messages>>

\* if (!options.apiKey): the text prompt; apiKey = answer || undefined
CliAskApiKey ==
  /\ cliPc = "askApiKey"
  /\ IF Truthy(cliOptions.apiKey)
     THEN UNCHANGED <<cliOptions, promptsIssued>>
     ELSE \E answer \in ApiKeyAnswers :
            /\ promptsIssued' = Append(promptsIssued, "apiKey")
            /\ cliOptions' = [cliOptions EXCEPT !.apiKey = OrElse(answer, Undefined)]
  /\ cliPc' = "modelChoices"
  /\ UNCHANGED <<argv, bunAvailable, destExists, cliArgs, cliModels,
                 fetchCalls, installCalls, installOutcome, messages, exitCode>>

\* what the network may answer to the request of a listing adapter
CliResponses ==
  {[kind |-> "transportError", entries |-> <<>>],
   [kind |-> "http401", entries |-> <<>>],
   [kind |-> "nolist", entries |-> <<>>],
   [kind |-> "list", entries |-> <<>>],
   [kind |-> "list", entries |-> <<"gpt-4", "command-r">>],
   [kind |-> "list", entries |-> <<Undefined>>]}

ResponsesFor(provider) ==
  IF RequestsMade(provider) = 1 THEN CliResponses ELSE {NoResponse}

\* the model choices with the fetch made for every key that is not empty,
\* blank or not
CliModelChoicesNoTrim ==
  /\ cliPc = "modelChoices"
  /\ IF Truthy(cliOptions.model)
     THEN /\ cliPc' = "askExamples"
          /\ UNCHANGED <<cliModels, fetchCalls, fetchVars>>
     ELSE /\ cliPc' = "askModel"
          /\ IF Truthy(cliOptions.apiKey)
             THEN \E response \in ResponsesFor(cliOptions.provider) :
                    LET outcome == FetchOutcome(cliOptions.provider,
                                                trim(cliOptions.apiKey), response)
                    IN /\ fetchCalls' = fetchCalls + 1
                       /\ fetchPc' = "returned"
                       /\ fetchProvider' = cliOptions.provider
                       /\ fetchApiKey' = trim(cliOptions.apiKey)
                       /\ fetchResponse' = response
                       /\ fetchResult' = outcome
                       /\ netCalls' = netCalls + RequestsMade(cliOptions.provider)
                       /\ cliModels' =
                            IF outcome.value.type = "array"
                               /\ Len(outcome.value.items) > 0
                            THEN outcome.value
                            ELSE StaticModels(cliOptions.provider)
             ELSE /\ cliModels' = StaticModels(cliOptions.provider)
                  /\ UNCHANGED <<fetchCalls, fetchVars>>
  /\ UNCHANGED <<argv, bunAvailable, destExists, cliArgs, cliOptions,
                 promptsIssued, installCalls, installOutcome, messages, exitCode>>

\* if (!options.model): the static list, then the fetch when the key is not
\* blank, whose non-empty result replaces the list
CliModelChoices ==
  /\ cliPc = "modelChoices"
  /\ IF Truthy(cliOptions.model)
     THEN /\ cliPc' = "askExamples"
          /\ UNCHANGED <<cliModels, fetchCalls, fetchVars>>
     ELSE /\ cliPc' = "askModel"
          /\ IF Truthy(cliOptions.apiKey) /\ Truthy(trim(cliOptions.apiKey))
             THEN \E response \in ResponsesFor(cliOptions.provider) :
                    LET outcome == FetchOutcome(cliOptions.provider,
                                                trim(cliOptions.apiKey), response)
                    IN /\ fetchCalls' = fetchCalls + 1
                       /\ fetchPc' = "returned"
                       /\ fetchProvider' = cliOptions.provider
                       /\ fetchApiKey' = trim(cliOptions.apiKey)
                       /\ fetchResponse' = response
                       /\ fetchResult' = outcome
                       /\ netCalls' = netCalls + RequestsMade(cliOptions.provider)
                       /\ cliModels' =
                            IF outcome.value.type = "array"
                               /\ Len(outcome.value.items) > 0
                            THEN outcome.value
                            ELSE StaticModels(cliOptions.provider)
             ELSE /\ cliModels' = StaticModels(cliOptions.provider)
                  /\ UNCHANGED <<fetchCalls, fetchVars>>
  /\ UNCHANGED <<argv, bunAvailable, destExists, cliArgs, cliOptions,
                 promptsIssued, installCalls, installOutcome, messages, exitCode>>

\* the select prompt over models.map(...); a value without map is a
\* TypeError, which main().catch turns into exit 1
CliAskModel ==
  /\ cliPc = "askModel"
  /\ IF cliModels.type # "array"
     THEN Exit(1) /\ UNCHANGED <<cliOptions, promptsIssued>>
     ELSE \E answer \in ModelPicks(cliModels.items) :
            /\ promptsIssued' = Append(promptsIssued, "model")
            /\ IF Truthy(answer)
               THEN /\ cliOptions' = [cliOptions EXCEPT !.model = answer]
                    /\ cliPc' = "askExamples"
                    /\ UNCHANGED exitCode
               ELSE Exit(1) /\ UNCHANGED cliOptions
  /\ UNCHANGED <<argv, bunAvailable, destExists, cliArgs, cliModels,
                 fetchCalls, installCalls, installOutcome, messages>>

\* a ?? b
Nullish(a, b) == IF a = Undefined THEN b ELSE a

\* if (options.includeExamples === undefined): the confirm prompt; then the
\* return of collectProjectOptions
CliAskExamples ==
  /\ cliPc = "askExamples"
  /\ IF cliOptions.includeExamples = Undefined
     THEN \E answer \in ExamplesAnswers :
            /\ promptsIssued' = Append(promptsIssued, "includeExamples")
            /\ cliOptions' =
                 [cliOptions EXCEPT
                    !.includeExamples = Nullish(answer, JsTrue),
                    !.skipInstall = Nullish(cliOptions.skipInstall, JsFalse)]
     ELSE /\ cliOptions' =
               [cliOptions EXCEPT
                  !.skipInstall = Nullish(cliOptions.skipInstall, JsFalse)]
          /\ UNCHANGED promptsIssued
  /\ cliPc' = "validate"
  /\ UNCHANGED <<argv, bunAvailable, destExists, cliArgs, cliModels,
                 fetchCalls, installCalls, installOutcome, messages, exitCode>>

\* main with the test of directoryExists left out
CliValidateNoDirCheck ==
  /\ cliPc = "validate"
  /\ IF ~validateProjectName(cliOptions.projectName).valid
     THEN Exit(1) /\ UNCHANGED genVars
     ELSE /\ cliPc' = "generating"
          /\ genPc' = "ready"
          /\ genOptions' =
               [projectName |-> cliOptions.projectName,
                provider |-> cliOptions.provider,
                model |-> cliOptions.model,
                apiKey |-> cliOptions.apiKey,
                includeExamples |-> cliOptions.includeExamples = JsTrue]
          /\ UNCHANGED <<exitCode, genRoots, TEMPLATE_DIR, genVarSet,
                         genManifest, genNext, genDirs, genDisk, genLog,
                         genError>>
  /\ UNCHANGED <<argv, bunAvailable, destExists, cliArgs, cliOptions,
                 cliModels, promptsIssued, fetchCalls, installCalls,
                 installOutcome, messages>>

\* validateProjectName, directoryExists, then the call of generateProject
CliValidate ==
  /\ cliPc = "validate"
  /\ IF ~validateProjectName(cliOptions.projectName).valid \/ destExists
     THEN Exit(1) /\ UNCHANGED genVars
     ELSE /\ cliPc' = "generating"
          /\ genPc' = "ready"
          /\ genOptions' =
               [projectName |-> cliOptions.projectName,
                provider |-> cliOptions.provider,
                model |-> cliOptions.model,
                apiKey |-> cliOptions.apiKey,
                includeExamples |-> cliOptions.includeExamples = JsTrue]
          /\ UNCHANGED <<exitCode, genRoots, TEMPLATE_DIR, genVarSet,
                         genManifest, genNext, genDirs, genDisk, genLog,
                         genError>>
  /\ UNCHANGED <<argv, bunAvailable, destExists, cliArgs, cliOptions,
                 cliModels, promptsIssued, fetchCalls, installCalls,
                 installOutcome, messages>>

\* generateProject has thrown: the catch exits with 1
CliGenerateFailed ==
  /\ cliPc = "generating"
  /\ genPc = "failed"
  /\ Exit(1)
  /\ UNCHANGED <<argv, bunAvailable, destExists, cliArgs, cliOptions,
                 cliModels, promptsIssued, fetchCalls, installCalls,
                 installOutcome, messages>>

\* main with the test of options.skipInstall left out
CliGenerateDoneAlwaysInstall ==
  /\ cliPc = "generating"
  /\ genPc = "done"
  /\ cliPc' = "installing"
  /\ installCalls' = installCalls + 1
  /\ UNCHANGED <<argv, bunAvailable, destExists, cliArgs, cliOptions,
                 cliModels, promptsIssued, fetchCalls, installOutcome, messages,
                 exitCode>>

\* generateProject has returned: installDependencies unless skipInstall
CliGenerateDone ==
  /\ cliPc = "generating"
  /\ genPc = "done"
  /\ IF ~Truthy(cliOptions.skipInstall)
     THEN /\ cliPc' = "installing"
          /\ installCalls' = installCalls + 1
          /\ UNCHANGED <<exitCode, messages>>
     ELSE /\ messages' = Append(messages, "success")
          /\ Exit(0)
          /\ UNCHANGED installCalls
  /\ UNCHANGED <<argv, bunAvailable, destExists, cliArgs, cliOptions,
                 cliModels, promptsIssued, fetchCalls, installOutcome>>

\* main without the try/catch around installDependencies: the rejection
\* reaches main().catch
CliInstallEndsFatal ==
  /\ cliPc = "installing"
  /\ \E outcome \in {"installed", "failed"} :
       /\ installOutcome' = outcome
       /\ IF outcome = "failed"
          THEN Exit(1) /\ UNCHANGED messages
          ELSE Exit(0) /\ messages' = Append(messages, "success")
  /\ UNCHANGED <<argv, bunAvailable, destExists, cliArgs, cliOptions,
                 cliModels, promptsIssued, fetchCalls, installCalls>>

\* bun install ends; a failure is caught and reported, main goes on to the
\* success message
CliInstallEnds ==
  /\ cliPc = "installing"
  /\ \E outcome \in {"installed", "failed"} :
       /\ installOutcome' = outcome
       /\ messages' =
            IF outcome = "failed"
            THEN messages \o <<"warning: install", "success">>
            ELSE Append(messages, "success")
  /\ Exit(0)
  /\ UNCHANGED <<argv, bunAvailable, destExists, cliArgs, cliOptions,
                 cliModels, promptsIssued, fetchCalls, installCalls>>

(***************************************************************************)
(* Runs of the command                                                     *)
(***************************************************************************)

FirstTokens == {<<>>, <<"my-app">>, <<"bad/name">>}

ProviderTokens ==
  {<<>>, <<"--provider", "groq">>, <<"--provider", "OpenAI">>,
   <<"--provider", "constructor">>}

ModelTokens == {<<>>, <<"--model", "gpt-4">>}

ApiKeyTokens == {<<>>, <<"--api-key", "sk-proj-k">>}

NoInstallTokens == {<<>>, <<"--no-install">>}

YesTokens == {<<>>, <<"--yes">>}

ArgvInputs ==
  {f \o p \o m \o k \o n \o y :
     f \in FirstTokens, p \in ProviderTokens, m \in ModelTokens,
     k \in ApiKeyTokens, n \in NoInstallTokens, y \in YesTokens}
  \cup {<<"--help">>, <<"my-app", "-h">>, <<"-y", "my-app">>, <<"CON", "-y">>,
        <<"--name", "named", "--yes">>, <<"my-app", "--name", "named">>}

\* the template roots the package may be run with: the development root
\* complete, or with one template missing
CliRoots ==
  {[r \in {"dev", "prod"} |->
      IF r = "dev" THEN [exists |-> TRUE, files |-> AllTemplates \ missing]
      ELSE [exists |-> FALSE, files |-> {}]] :
     missing \in {{}, {"README.md.template"}}}

CliInit ==
  /\ cliPc = "start"
  /\ argv \in ArgvInputs
  /\ bunAvailable \in BOOLEAN
  /\ destExists \in BOOLEAN
  /\ cliArgs = NoValues
  /\ cliOptions = NoOptions
  /\ cliModels = JsNull
  /\ promptsIssued = <<>>
  /\ fetchCalls = 0
  /\ installCalls = 0
  /\ installOutcome = "none"
  /\ messages = <<>>
  /\ exitCode = 0
  /\ genPc = "idle"
  /\ genOptions = [projectName |-> "", provider |-> "", model |-> "",
                   apiKey |-> Undefined, includeExamples |-> FALSE]
  /\ genRoots \in CliRoots
  /\ TEMPLATE_DIR = getTemplateDir(genRoots)
  /\ genVarSet = <<>>
  /\ genManifest = <<>>
  /\ genNext = 0
  /\ genDirs = {}
  /\ genDisk = <<>>
  /\ genLog = <<>>
  /\ genError = "none"

\* the command is not run
CliIdle ==
  /\ cliPc = "idle"
  /\ argv = <<>>
  /\ bunAvailable = FALSE
  /\ destExists = FALSE
  /\ cliArgs = NoValues
  /\ cliOptions = NoOptions
  /\ cliModels = JsNull
  /\ promptsIssued = <<>>
  /\ fetchCalls = 0
  /\ installCalls = 0
  /\ installOutcome = "none"
  /\ messages = <<>>
  /\ exitCode = 0

(***************************************************************************)
(* Specifications: one per component, the other components idle            *)
(***************************************************************************)

vars == <<regVars, tplVars4, fetchVars, genVars, valVars, cliVars>>

RegistryInit ==
  RegInit /\ TplIdle /\ FetchIdle /\ GenIdle /\ ValIdle /\ CliIdle

RegistryNext ==
  RegNext /\ UNCHANGED <<tplVars4, fetchVars, genVars, valVars, cliVars>>

SpecRegistry == RegistryInit /\ [][RegistryNext]_vars

RenderInit ==
  TplInit /\ RegIdle /\ FetchIdle /\ GenIdle /\ ValIdle /\ CliIdle

RenderNext ==
  TplNext /\ UNCHANGED <<regVars, fetchVars, genVars, valVars, cliVars>>

SpecRender == RenderInit /\ [][RenderNext]_vars

FetcherInit ==
  FetchInit /\ RegIdle /\ TplIdle /\ GenIdle /\ ValIdle /\ CliIdle

notFetchVars == <<regVars, tplVars4, genVars, valVars, cliVars>>

FetcherNext ==
  \/ FetchUnsupported /\ UNCHANGED notFetchVars
  \/ FetchAnthropic /\ UNCHANGED notFetchVars
  \/ FetchRequest /\ UNCHANGED notFetchVars
  \/ FetchTransportFails /\ UNCHANGED notFetchVars
  \/ FetchHttpError /\ UNCHANGED notFetchVars
  \/ FetchHttpOk /\ UNCHANGED notFetchVars
  \/ FetchBodyRead /\ UNCHANGED notFetchVars

SpecFetch == FetcherInit /\ [][FetcherNext]_vars

GeneratorInit ==
  GenInit /\ RegIdle /\ TplIdle /\ FetchIdle /\ ValIdle /\ CliIdle

notGenVars == <<regVars, tplVars4, fetchVars, valVars, cliVars>>

GeneratorNext ==
  \/ GenPrepare /\ UNCHANGED notGenVars
  \/ GenMkdirFails /\ UNCHANGED notGenVars
  \/ GenCopy /\ UNCHANGED notGenVars
  \/ GenTemplateNotFound /\ UNCHANGED notGenVars
  \/ GenIoFails /\ UNCHANGED notGenVars
  \/ GenFinish /\ UNCHANGED notGenVars

SpecGen == GeneratorInit /\ [][GeneratorNext]_vars

ValidatorInit ==
  ValInit /\ RegIdle /\ TplIdle /\ FetchIdle /\ GenIdle /\ CliIdle

ValidatorNext ==
  ValNext /\ UNCHANGED <<regVars, tplVars4, fetchVars, genVars, cliVars>>

SpecValidate == ValidatorInit /\ [][ValidatorNext]_vars

\* a run of the command: main, with the fetch as one step of option
\* resolution and generateProject step by step
CommandInit == CliInit /\ RegIdle /\ TplIdle /\ FetchIdle /\ ValIdle

onlyCliVars == <<regVars, tplVars4, valVars, fetchVars, genVars>>

CommandNext ==
  \/ CliStart /\ UNCHANGED onlyCliVars
  \/ CliBunMissing /\ UNCHANGED onlyCliVars
  \/ CliYesDefaults /\ UNCHANGED onlyCliVars
  \/ CliCollectStart /\ UNCHANGED onlyCliVars
  \/ CliAskName /\ UNCHANGED onlyCliVars
  \/ CliAskProvider /\ UNCHANGED onlyCliVars
  \/ CliAskApiKey /\ UNCHANGED onlyCliVars
  \/ CliModelChoices /\ UNCHANGED <<regVars, tplVars4, valVars, genVars>>
  \/ CliAskModel /\ UNCHANGED onlyCliVars
  \/ CliAskExamples /\ UNCHANGED onlyCliVars
  \/ CliValidate /\ UNCHANGED <<regVars, tplVars4, valVars, fetchVars>>
  \/ GenPrepare /\ UNCHANGED notGenVars
  \/ GenMkdirFails /\ UNCHANGED notGenVars
  \/ GenCopy /\ UNCHANGED notGenVars
  \/ GenTemplateNotFound /\ UNCHANGED notGenVars
  \/ GenIoFails /\ UNCHANGED notGenVars
  \/ GenFinish /\ UNCHANGED notGenVars
  \/ CliGenerateFailed /\ UNCHANGED onlyCliVars
  \/ CliGenerateDone /\ UNCHANGED onlyCliVars
  \/ CliInstallEnds /\ UNCHANGED onlyCliVars

SpecCli == CommandInit /\ [][CommandNext]_vars

(***************************************************************************)
(* Properties of a run of the command                                      *)
(***************************************************************************)

\* generateProject has been invoked, or something of the project is on disk
Materializing ==
  genPc # "idle" \/ genDirs # {} \/ DOMAIN genDisk # {}

NameAccepted == validateProjectName(cliOptions.projectName).valid

\* C15: generateProject is invoked, and the file system touched, only in a
\* run whose project name passed validateProjectName and whose destination
\* directory did not exist; a run that reaches the validation with an
\* invalid or reserved name, or with the directory present, exits with code
\* 1 at that step and nothing has been created.
C15_NoMutationUnlessValidated ==
  /\ [](Materializing => NameAccepted /\ ~destExists)
  /\ [][cliPc = "validate" /\ (~NameAccepted \/ destExists)
          => cliPc' = "exited" /\ exitCode' = 1 /\ ~Materializing']_vars

\* a run with --yes (no prompt to cancel) and a valid name, refused because
\* the directory exists
C15_Witness ==
  /\ cliPc = "exited"
  /\ exitCode = 1
  /\ bunAvailable
  /\ Truthy(cliArgs.yes)
  /\ NameAccepted
  /\ destExists
  /\ ~Materializing

\* the result of the fetch of this run, when it gave a non-empty list
FetchedList ==
  /\ fetchCalls > 0
  /\ fetchResult.value.type = "array"
  /\ Len(fetchResult.value.items) > 0

\* C17: whenever the model prompt is about to be shown, the choices are a
\* non-empty list: the fetched list when the fetch gave a non-empty one,
\* and otherwise the static list kept for the provider.
C17_ChoicesAlwaysUsable ==
  cliPc = "askModel" =>
    /\ cliModels.type = "array"
    /\ Len(cliModels.items) > 0
    /\ FetchedList => cliModels = fetchResult.value
    /\ ~FetchedList => cliModels = StaticModels(cliOptions.provider)

NoInstallGiven == "--no-install" \in Range(argv)

\* C18: installDependencies is invoked at most once, only after
\* generateProject has returned and only in a run without --no-install; a
\* run that ends after a successful generation without --no-install has
\* invoked it.
C18_InstallExactlyAfterSuccess ==
  /\ installCalls <= 1
  /\ installCalls = 1 => genPc = "done" /\ ~NoInstallGiven
  /\ NoInstallGiven => installCalls = 0
  /\ cliPc = "exited" /\ genPc = "done" /\ ~NoInstallGiven => installCalls = 1

\* a run that generated the project and then installed its dependencies
C18_Witness ==
  /\ cliPc = "exited"
  /\ genPc = "done"
  /\ installCalls = 1
  /\ installOutcome = "installed"

YesGiven == "--yes" \in Range(argv) \/ "-y" \in Range(argv)

\* the project name the command line gives: the value of --name, else the
\* first token that is neither an option nor the value of one
RECURSIVE PositionalFrom(_, _)
PositionalFrom(tokens, i) ==
  IF i > Len(tokens) THEN Undefined
  ELSE IF StringOption(tokens[i]) # "" THEN PositionalFrom(tokens, i + 2)
  ELSE IF BooleanOption(tokens[i]) # "" THEN PositionalFrom(tokens, i + 1)
  ELSE tokens[i]

GivenName == Nullish(cliArgs.name, PositionalFrom(argv, 1))

\* C19: a run with --yes issues no prompt and makes no model fetch, and
\* generateProject is entered with every option the command line does not
\* give at its default: project name my-fred-project, provider openai, model
\* gpt-4o-mini, examples included.
C19_YesUsesDefaults ==
  YesGiven =>
    /\ promptsIssued = <<>>
    /\ fetchCalls = 0
    /\ netCalls = 0
    /\ genPc # "idle" =>
         /\ genOptions.projectName = Nullish(GivenName, "my-fred-project")
         /\ genOptions.provider = Nullish(cliArgs.provider, "openai")
         /\ genOptions.model = Nullish(cliArgs.model, "gpt-4o-mini")
         /\ genOptions.includeExamples

\* C20: a run without --yes that reaches generateProject has asked whether
\* to include the examples, so that the answer, and not a preset value, is
\* what generateProject receives.
C20_InteractiveAsksExamples ==
  ~YesGiven /\ genPc # "idle" => "includeExamples" \in Range(promptsIssued)

CredentialSupplied == genOptions.apiKey \notin {Undefined, ""}

\* C21: once generateProject has computed its variable set, the set has
\* exactly the seven keys, each once; PROJECT_NAME, PROVIDER and MODEL are
\* the options as given, PROVIDER_PACKAGE and ENV_VAR_NAME are what the
\* registry answers for the provider, API_KEY_PLACEHOLDER is the credential
\* when one is supplied and your-api-key-here otherwise, and FRED_VERSION
\* is latest.
C21_VariablesFromOptions ==
  genPc \notin {"idle", "ready"} =>
    /\ Len(genVarSet) = 7
    /\ {genVarSet[i][1] : i \in DOMAIN genVarSet} =
         {"PROJECT_NAME", "PROVIDER", "MODEL", "PROVIDER_PACKAGE",
          "ENV_VAR_NAME", "API_KEY_PLACEHOLDER", "FRED_VERSION"}
    /\ VarOf(genVarSet, "PROJECT_NAME") = genOptions.projectName
    /\ VarOf(genVarSet, "PROVIDER") = genOptions.provider
    /\ VarOf(genVarSet, "MODEL") = genOptions.model
    /\ VarOf(genVarSet, "PROVIDER_PACKAGE") =
         getProviderPackageName(genOptions.provider)
    /\ VarOf(genVarSet, "ENV_VAR_NAME") = getProviderEnvVar(genOptions.provider)
    /\ VarOf(genVarSet, "API_KEY_PLACEHOLDER") =
         (IF CredentialSupplied THEN genOptions.apiKey ELSE "your-api-key-here")
    /\ VarOf(genVarSet, "FRED_VERSION") = "latest"

\* the variable set of a run for Groq without a credential
C21_Witness ==
  /\ genPc = "copying"
  /\ genOptions.provider = "Groq"
  /\ genOptions.apiKey = Undefined
  /\ VarOf(genVarSet, "PROVIDER") = "Groq"
  /\ VarOf(genVarSet, "PROVIDER_PACKAGE") = "@ai-sdk/groq"
  /\ VarOf(genVarSet, "ENV_VAR_NAME") = "GROQ_API_KEY"
  /\ VarOf(genVarSet, "API_KEY_PLACEHOLDER") = "your-api-key-here"

\* the request of this call was answered by a failure
RequestFailed ==
  fetchResponse.kind \in {"transportError", "http401", "http500"}

\* C22: a call of fetchModelsFromProvider issues at most one request; when
\* the request has failed the call has returned null after that one
\* request, and a call that has returned issues nothing more.
C22_OneRequestNoRetry ==
  /\ [](netCalls <= 1)
  /\ [](RequestFailed =>
          fetchPc = "returned" /\ fetchResult = Returns(JsNull) /\ netCalls = 1)
  /\ [][fetchPc = "returned" =>
          fetchPc' = "returned" /\ netCalls' = netCalls]_vars

\* a call whose single request failed in transport and which returned null
C22_Witness ==
  /\ fetchPc = "returned"
  /\ fetchResponse.kind = "transportError"
  /\ netCalls = 1
  /\ fetchResult = Returns(JsNull)

\* the provider is sent to the adapter without a listing endpoint
IsAnthropic == toLowerCase(fetchProvider) = "anthropic"

\* C23: a call for anthropic never issues a request; it returns null when
\* the key does not start with sk-ant- and otherwise the four Claude models
\* of the curated list.
C23_AnthropicLocalOnly ==
  IsAnthropic /\ fetchPc # "idle" =>
    /\ netCalls = 0
    /\ fetchResponse = NoResponse
    /\ fetchPc = "returned" =>
         fetchResult =
           (IF Len(fetchApiKey) >= 7 /\ SubSeq(fetchApiKey, 1, 7) = "sk-ant-"
            THEN Returns(JsArray(<<"claude-3-5-sonnet-20241022",
                                   "claude-3-opus-20240229",
                                   "claude-3-sonnet-20240229",
                                   "claude-3-haiku-20240307">>))
            ELSE Returns(JsNull))

\* a call for anthropic with a key of another shape, answered null without
\* a request
C23_Witness ==
  /\ fetchPc = "returned"
  /\ fetchProvider = "anthropic"
  /\ fetchApiKey = "sk-proj-k"
  /\ fetchResult = Returns(JsNull)
  /\ netCalls = 0

\* the destinations of the manifest of this run, in manifest order
ManifestDests ==
  [j \in 1..Len(Manifest(genOptions)) |-> Manifest(genOptions)[j][2]]

C25_NullOrNonEmpty ==
  fetchPc = "returned" =>
    /\ ~fetchResult.threw
    /\ \/ fetchResult.value = JsNull
       \/ /\ fetchResult.value.type = "array"
          /\ Len(fetchResult.value.items) > 0
    /\ fetchResponse.kind = "list" /\ fetchResponse.entries = <<>>
         => fetchResult.value = JsNull

\* groq answered with an empty list and the caller received null
C25_Witness ==
  /\ fetchPc = "returned"
  /\ fetchProvider = "groq"
  /\ fetchResponse = [kind |-> "list", entries |-> <<>>]
  /\ fetchResult = Returns(JsNull)

\* option resolution is past the point where the fetch is decided
ChoicesDecided ==
  cliPc \in {"askModel", "askExamples", "validate", "generating",
             "installing", "exited"}

BlankCredential ==
  cliOptions.apiKey = Undefined \/ trim(cliOptions.apiKey) = ""

\* C26: in a run fetchModelsFromProvider is called at most once; a call
\* has been made only past the provider and credential steps, for the
\* resolved provider and the trimmed credential, in a run without --model
\* and with a credential that is not blank; a run with --model, and a run
\* whose resolved credential is blank, make no call.
C26_FetchAtMostOnceWhenNeeded ==
  /\ fetchCalls <= 1
  /\ fetchCalls = 1 =>
       /\ ChoicesDecided
       /\ ~Truthy(cliArgs.model)
       /\ Truthy(cliOptions.provider)
       /\ ~BlankCredential
       /\ fetchProvider = cliOptions.provider
       /\ fetchApiKey = trim(cliOptions.apiKey)
  /\ Truthy(cliArgs.model) => fetchCalls = 0
  /\ ChoicesDecided /\ BlankCredential => fetchCalls = 0

\* a run without --model in which the key typed at the prompt was used for
\* one fetch
C26_Witness ==
  /\ fetchCalls = 1
  /\ cliArgs.model = Undefined
  /\ cliArgs.apiKey = Undefined
  /\ cliOptions.apiKey = "sk-ant-api03-k"
  /\ fetchProvider = "anthropic"
  /\ cliPc = "askModel"

\* the resolved provider is a supported identifier up to letter case
SupportedUpToCase ==
  /\ Truthy(cliOptions.provider)
  /\ toLowerCase(cliOptions.provider) \in DOMAIN MODELS_BY_PROVIDER

\* C27: when the model menu is about to be shown for a provider that is a
\* supported identifier up to letter case, the fetch, if one was made, has
\* answered as it does for the lowercase identifier, and a menu built from
\* the static list shows the static list of the lowercase identifier.
C27_ProviderCaseInsensitive ==
  cliPc = "askModel" /\ SupportedUpToCase =>
    /\ fetchCalls > 0 =>
         fetchResult = FetchOutcome(toLowerCase(cliOptions.provider),
                                    fetchApiKey, fetchResponse)
    /\ ~FetchedList =>
         cliModels = JsArray(MODELS_BY_PROVIDER[toLowerCase(cliOptions.provider)])

\* C28: for every provider of the provider menu, MODELS_BY_PROVIDER holds a
\* list and the default model the registry answers for the provider is one
\* of its elements.
C28_DefaultModelInStaticList ==
  regPc = "done" /\ regInput \in Range(PROVIDERS) =>
    /\ regInput \in DOMAIN MODELS_BY_PROVIDER
    /\ regModel \in Range(MODELS_BY_PROVIDER[regInput])

C30_InstallFailureNotFatal ==
  /\ installOutcome = "failed" =>
       /\ cliPc = "exited"
       /\ exitCode = 0
       /\ messages = <<"warning: install", "success">>
       /\ genPc = "done"
       /\ Range(ManifestDests) \subseteq DOMAIN genDisk
  /\ genPc = "failed" =>
       /\ installCalls = 0
       /\ messages = <<>>
       /\ cliPc \in {"generating", "exited"}
       /\ cliPc = "exited" => exitCode = 1

\* a run whose installation failed after the project was generated
C30_Witness ==
  /\ cliPc = "exited"
  /\ installOutcome = "failed"
  /\ installCalls = 1
  /\ exitCode = 0
  /\ genPc = "done"

====
